---- MODULE Spec2Model ----
(***************************************************************************)
(* Model of the ai-coin-agg collection and scoring pipeline.               *)
(*                                                                         *)
(* Two specifications share the definitions below:                         *)
(*   SpecFetch  one invocation of one upstream fetch function, stepped     *)
(*              request by request and sleep by sleep;                     *)
(*   Spec       run_full_data_pipeline over a coin mapping, every fetch    *)
(*              call being the same per-attempt code run to completion.    *)
(*                                                                         *)
(* Python values are tagged records: [t |-> "none"], [t |-> "int", v],     *)
(* [t |-> "float", v], [t |-> "str", v], [t |-> "list", v |-> <<..>>],     *)
(* [t |-> "dict", v |-> [key |-> value]].  Dictionaries returned by the    *)
(* program's own functions are functions from keys to values, so that      *)
(* `"error" in d` is "error" \in DOMAIN d.  Durations are in tenths of a   *)
(* second.                                                                 *)
(***************************************************************************)
EXTENDS Integers, Sequences, FiniteSets, TLC

VARIABLES
    config,     \* the credentials read by src/utils/config.py
    client,     \* SpecFetch: the fetch function being executed
    args,       \* SpecFetch: its arguments
    attempt,    \* SpecFetch: the retry loop index of the call
    fpc,        \* SpecFetch: "request" | "sleep" | "returned" | "raised" | "off"
    pending,    \* SpecFetch: the sleep in progress and what follows it
    events,     \* SpecFetch: requests and sleeps of the call, in order
    result,     \* SpecFetch: the dictionary returned by the call
    coin_mapping,   \* the keys of config.COIN_MAPPING, in order
    pc,             \* Spec: the statement run_full_data_pipeline has reached
    loader,         \* Spec: the loop state of load_coins_from_mapping
    batch,          \* Spec: 1 or 2, the batch the for loop is going through
    queue,          \* Spec: the ids the for loop has still to visit
    batch_2_ids,    \* Spec: the second batch
    current_coin,   \* Spec: the id process_and_save_coin_data is called with
    combined_data,  \* Spec: the dictionary collect_all_data_for_coin builds
    errors,         \* Spec: its list of collection errors
    collected,      \* Spec: what collect_all_data_for_coin returned
    cleaned,        \* Spec: what clean_coin_data returned
    scored,         \* Spec: what calculate_coin_score returned
    coins_table,    \* Spec: the coins table, row i having id i
    metrics_table,  \* Spec: the metrics table
    scores_table,   \* Spec: the scores table
    calls,          \* Spec: the fetches made for the current coin, and how each ended
    score_writes,   \* Spec: the INSERTs into scores that were attempted
    db_failures,    \* Spec: the number of database calls that have failed
    sleeps,         \* Spec: the places where time.sleep was called
    summaries_table,    \* Spec: the summaries table
    discord_calls   \* Spec: the lists send_to_discord was called with

fetchVars == <<config, client, args, attempt, fpc, pending, events, result>>
pipeVars == <<coin_mapping, pc, loader, batch, queue, batch_2_ids, current_coin,
              combined_data, errors, collected, cleaned, scored,
              coins_table, metrics_table, scores_table, calls, score_writes,
              db_failures, sleeps, summaries_table, discord_calls>>
vars == <<fetchVars, pipeVars>>

\* ------------------------------------------------------------------------
\* Bounds of the model
\* ------------------------------------------------------------------------
\* number of values random.uniform(0, 1) is sampled at (evenly spread over [0,1])
JitterSteps == 1
\* largest number of coins in the mapping of a run
MaxCoins == 2
\* largest number of database calls that fail in a run
MaxDbFailures == 1

\* ------------------------------------------------------------------------
\* Python values
\* ------------------------------------------------------------------------
None == [t |-> "none"]
PyInt(n) == [t |-> "int", v |-> n]
PyFloat(n) == [t |-> "float", v |-> n]
PyStr(s) == [t |-> "str", v |-> s]
PyList(s) == [t |-> "list", v |-> s]
PyDict(d) == [t |-> "dict", v |-> d]
EmptyDict == PyDict(<<>>)

\* a str holding the decimal text of the number n, as in "4000"
NumStr(n) == [t |-> "numstr", v |-> n]
\* a str of comma-separated fields, as in GDELT's tone "-2.5,1.0,3.5"; a
\* field is <<"num", n>> (the text of the number n) or <<"txt">> (other text)
Csv(fields) == [t |-> "csv", v |-> fields]
\* the float num / 10^exp, kept as a quotient
Quot(num, exp) == [t |-> "quot", num |-> num, exp |-> exp]

\* the float 10^e, too large for units of 10^-4
Sci(e) == [t |-> "sci", e |-> e]
\* float('inf'), which json.loads gives for Infinity or 1e999
Inf == [t |-> "inf"]

\* an exception raised where a value was to be computed
Exc(what) == [t |-> "exc", v |-> what]

IsNum(x) == x.t \in {"int", "float"}

\* bool(x)
Truthy(x) ==
    CASE x.t = "none" -> FALSE
      [] x.t \in {"int", "float"} -> x.v # 0
      [] x.t = "str" -> x.v # ""
      [] x.t = "csv" -> x.v # <<>>
      [] x.t = "quot" -> x.num # 0
      [] x.t = "list" -> Len(x.v) > 0
      [] x.t = "dict" -> DOMAIN x.v # {}
      [] OTHER -> TRUE

\* d.get(k) and d.get(k, dflt) on a JSON object
GetOr(d, k, dflt) == IF k \in DOMAIN d.v THEN d.v[k] ELSE dflt
Get(d, k) == GetOr(d, k, None)

\* tenths of a second
Seconds(n) == 10 * n

Pow2(n) == IF n = 0 THEN 1 ELSE IF n = 1 THEN 2 ELSE IF n = 2 THEN 4
           ELSE IF n = 3 THEN 8 ELSE IF n = 4 THEN 16 ELSE 32

\* the values random.uniform(0, 1) takes in the model, in tenths
Jitters == {(10 * i) \div JitterSteps : i \in 0..JitterSteps}

\* round(a / b) for b > 0, ties to the even neighbour (Python's round)
RoundDiv(a, b) ==
    LET q == a \div b
        r == a % b
    IN  IF 2 * r < b THEN q
        ELSE IF 2 * r > b THEN q + 1
        ELSE IF q % 2 = 0 THEN q ELSE q + 1

\* floats are kept in units of 10^-4, the precision of round(x, 4)
FourPlaces == 10000

RECURSIVE SumSeq(_)
SumSeq(s) == IF s = <<>> THEN 0 ELSE Head(s) + SumSeq(Tail(s))

\* ------------------------------------------------------------------------
\* What one requests.get(...) followed by raise_for_status() and json() can
\* come to
\* ------------------------------------------------------------------------
\* ConnectionError or Timeout: a RequestException whose response is None
ConnError == [kind |-> "conn"]
\* raise_for_status() raises HTTPError carrying the response
HttpError(status) == [kind |-> "http", status |-> status]
\* status 200 but response.json() fails; requests raises its own
\* JSONDecodeError (a RequestException, response None) or, in older
\* releases, the json module's (a ValueError)
Undecodable(cls) == [kind |-> "undecodable", cls |-> cls]
\* status 200 and the body decodes to the JSON value b
Json(b) == [kind |-> "json", body |-> b]

\* str(e) of the exception the response raises
ExcText(resp) ==
    CASE resp.kind = "conn" -> "ConnectionError"
      [] resp.kind = "http" /\ resp.status = 429 -> "429 Client Error"
      [] resp.kind = "http" /\ resp.status = 401 -> "401 Client Error"
      [] resp.kind = "http" /\ resp.status = 404 -> "404 Client Error"
      [] resp.kind = "http" -> "500 Server Error"
      [] OTHER -> "JSONDecodeError"

\* except requests.exceptions.RequestException catches it
IsRequestException(resp) ==
    \/ resp.kind \in {"conn", "http"}
    \/ resp.kind = "undecodable" /\ resp.cls = "requests"

\* a retry policy that also takes a 500 for a rate limit
IsRateLimitedOrServerError(resp) ==
    resp.kind = "http" /\ resp.status \in {429, 500}

\* e.response is not None and e.response.status_code == 429
IsRateLimited(resp) == resp.kind = "http" /\ resp.status = 429

\* ------------------------------------------------------------------------
\* What one pass through the body of a fetch function comes to
\* ------------------------------------------------------------------------
\* return r, after the time.sleep calls of `slept`
Return(r, slept) == [op |-> "return", result |-> r, slept |-> slept]
\* time.sleep(delay); continue
Retry(delay) == [op |-> "retry", delay |-> delay]
\* an exception leaves the function
Raise(what) == [op |-> "raise", what |-> what]

Error(parts) == [error |-> parts]
MaxRetriesReached == "(Max retries reached)"

\* loop bounds that are off by one, either way
MayRetryOnLastAttempt(att, max_retries) == att < max_retries
MayRetryButOnce(att, max_retries) == att < max_retries - 2

\* if attempt < max_retries - 1
MayRetry(att, max_retries) == att < max_retries - 1

\* the message of the last rate-limited attempt without its marker
RateLimitUnmarked(prefix, resp) == <<prefix, ExcText(resp)>>

\* f"...: {e} (Max retries reached)", the message returned when the last
\* attempt is rate limited
RateLimitExhausted(prefix, resp) == <<prefix, ExcText(resp), MaxRetriesReached>>

\* a backoff computed from the index of the attempt to come
BackoffDelayOfNextAttempt(base_delay, att, jitter) ==
    Seconds(base_delay * Pow2(att + 1)) + jitter

\* (base_delay * (2 ** attempt)) + random.uniform(0, 1); jitter in tenths
BackoffDelay(base_delay, att, jitter) == Seconds(base_delay * Pow2(att)) + jitter

\* ------------------------------------------------------------------------
\* src/collectors/coin_data.py
\* ------------------------------------------------------------------------
market_max_retries == 5
market_base_delay == 2

\* one iteration of the for loop of fetch_coingecko_market_data
MarketAttempt(coin_id, att, resp, jitter) ==
    IF resp.kind = "json" THEN
        LET data == resp.body IN
        IF Truthy(data) THEN
            CASE data.t = "list" ->
                    LET coin_data == data.v[1] IN
                    IF coin_data.t = "dict"
                    THEN Return([id |-> Get(coin_data, "id"),
                                 price |-> Get(coin_data, "current_price"),
                                 volume |-> Get(coin_data, "total_volume"),
                                 market_cap |-> Get(coin_data, "market_cap")], <<>>)
                    ELSE Return(Error(<<"An unexpected error occurred while fetching CoinGecko market data",
                                        "AttributeError">>), <<>>)
              [] data.t = "dict" ->
                    Return(Error(<<"Error parsing CoinGecko response", "KeyError">>), <<>>)
              [] OTHER ->
                    Return(Error(<<"An unexpected error occurred while fetching CoinGecko market data",
                                   "TypeError">>), <<>>)
        ELSE Return(Error(<<"No data found for coin ID">>), <<>>)
    ELSE IF IsRequestException(resp) THEN
        IF IsRateLimited(resp) THEN
            IF MayRetry(att, market_max_retries)
            THEN Retry(BackoffDelay(market_base_delay, att, jitter))
            ELSE Return(Error(RateLimitExhausted("Error fetching data from CoinGecko", resp)), <<>>)
        ELSE Return(Error(<<"Error fetching data from CoinGecko", ExcText(resp)>>), <<>>)
    ELSE Return(Error(<<"Error decoding JSON from CoinGecko", ExcText(resp)>>), <<>>)

\* the return after the for loop of fetch_coingecko_market_data
MarketLoopExit ==
    Error(<<"CoinGecko market data request failed after multiple retries.">>)

historical_max_retries == 5
historical_base_delay == 2

\* one iteration of the for loop of fetch_coingecko_historical_data
HistoricalAttempt(coin_id, att, resp, jitter) ==
    IF resp.kind = "json" THEN
        LET data == resp.body IN
        IF data.t = "dict"
        THEN Return([prices |-> GetOr(data, "prices", PyList(<<>>)),
                     market_caps |-> GetOr(data, "market_caps", PyList(<<>>)),
                     total_volumes |-> GetOr(data, "total_volumes", PyList(<<>>))], <<>>)
        ELSE Return(Error(<<"An unexpected error occurred while fetching CoinGecko historical data",
                            "AttributeError">>), <<>>)
    ELSE IF IsRequestException(resp) THEN
        IF IsRateLimited(resp) THEN
            IF MayRetry(att, historical_max_retries)
            THEN Retry(BackoffDelay(historical_base_delay, att, jitter))
            ELSE Return(Error(RateLimitExhausted("Error fetching historical data from CoinGecko",
                                                resp)), <<>>)
        ELSE Return(Error(<<"Error fetching historical data from CoinGecko", ExcText(resp)>>), <<>>)
    ELSE Return(Error(<<"Error decoding JSON from CoinGecko (historical)", ExcText(resp)>>), <<>>)

\* the return after the for loop of fetch_coingecko_historical_data
HistoricalLoopExit ==
    Error(<<"CoinGecko historical data request failed after multiple retries.">>)

\* ------------------------------------------------------------------------
\* src/collectors/social_data.py: GDELT DOC API
\* ------------------------------------------------------------------------
gdelt_max_retries == 5
gdelt_base_delay == 1

\* float(raw_tone_str.split(',')[0]) inside its try: the tone, or None when
\* ValueError is caught; AttributeError when raw_tone_str has no split()
ExtractTone(raw_tone_str) ==
    IF ~Truthy(raw_tone_str) THEN None
    ELSE CASE raw_tone_str.t = "csv" ->
                 IF raw_tone_str.v[1][1] = "num"
                 THEN PyFloat(raw_tone_str.v[1][2]) ELSE None
           [] raw_tone_str.t = "numstr" -> PyFloat(raw_tone_str.v * FourPlaces)
           [] raw_tone_str.t = "str" -> None
           [] OTHER -> Exc("AttributeError")

\* the for loop over articles_data: the processed articles, or the
\* exception that leaves the loop
RECURSIVE ProcessArticles(_)
ProcessArticles(articles) ==
    IF articles = <<>> THEN [exc |-> "", processed |-> <<>>]
    ELSE LET article == Head(articles)
             rest == ProcessArticles(Tail(articles))
         IN  IF article.t # "dict" THEN rest
             ELSE LET raw_tone_str == GetOr(article, "tone", PyStr(""))
                      article_tone == ExtractTone(raw_tone_str)
                  IN  IF article_tone.t = "exc"
                      THEN [exc |-> "AttributeError", processed |-> <<>>]
                      ELSE IF rest.exc # "" THEN rest
                      ELSE [exc |-> "",
                            processed |-> <<[tone_raw |-> raw_tone_str,
                                             tone_extracted |-> article_tone]>>
                                          \o rest.processed]

RECURSIVE ToneScores(_)
ToneScores(processed) ==
    IF processed = <<>> THEN <<>>
    ELSE IF Head(processed).tone_extracted.t = "none" THEN ToneScores(Tail(processed))
    ELSE <<Head(processed).tone_extracted.v>> \o ToneScores(Tail(processed))

\* one iteration of the for loop of fetch_gdelt_doc_api_news_sentiment
GdeltAttempt(query, att, resp, jitter) ==
    IF resp.kind = "json" THEN
        LET data == resp.body IN
        IF data.t # "dict"
        THEN Return([query |-> query,
                     error |-> <<"An unexpected error occurred with GDELT DOC API", "AttributeError">>], <<>>)
        ELSE LET articles_data == GetOr(data, "articles", PyList(<<>>)) IN
             IF articles_data.t \in {"none", "int", "float"}
             THEN Return([query |-> query,
                          error |-> <<"An unexpected error occurred with GDELT DOC API", "TypeError">>], <<>>)
             ELSE LET loop == ProcessArticles(IF articles_data.t = "list" THEN articles_data.v ELSE <<>>)
                      tone_scores == ToneScores(loop.processed)
                      average_tone == IF tone_scores # <<>>
                                      THEN RoundDiv(SumSeq(tone_scores), Len(tone_scores))
                                      ELSE 0
                  IN  IF loop.exc # ""
                      THEN Return([query |-> query,
                                   error |-> <<"An unexpected error occurred with GDELT DOC API", loop.exc>>], <<>>)
                      ELSE Return([query |-> query,
                                   gdelt_average_tone |-> PyFloat(average_tone),
                                   gdelt_article_count |-> PyInt(Len(loop.processed)),
                                   articles |-> loop.processed], <<>>)
    ELSE IF IsRequestException(resp) THEN
        IF IsRateLimited(resp) THEN
            IF MayRetry(att, gdelt_max_retries)
            THEN Retry(BackoffDelay(gdelt_base_delay, att, jitter))
            ELSE Return([query |-> query,
                         error |-> RateLimitExhausted("GDELT DOC API RequestException", resp)],
                        <<>>)
        ELSE Return([query |-> query,
                     error |-> <<"GDELT DOC API RequestException", ExcText(resp)>>], <<>>)
    ELSE Return([query |-> query,
                 error |-> <<"GDELT DOC API JSONDecodeError", ExcText(resp)>>], <<>>)

\* the return after the for loop of fetch_gdelt_doc_api_news_sentiment
GdeltLoopExit(query) ==
    [query |-> query,
     error |-> <<"GDELT DOC API request failed after multiple retries due to persistent issues">>]

\* ------------------------------------------------------------------------
\* src/collectors/on_chain.py: Etherscan
\* ------------------------------------------------------------------------
EtherscanPlaceholder == "YOUR_ETHERSCAN_API_KEY_HERE"
CryptoPanicPlaceholder == "YOUR_CRYPTO_PANIC_API_KEY_HERE"

\* not config.X or config.X == placeholder
KeyMissing(key, placeholder) == key = "" \/ key = placeholder

\* x.lower() of the model's address strings
Lower(x) == IF x = "0xA" THEN "0xa" ELSE IF x = "0xB" THEN "0xb" ELSE x

\* the for loop over transactions: the set of unique addresses, or the
\* exception that leaves the loop
RECURSIVE UniqueAddresses(_)
UniqueAddresses(transactions) ==
    IF transactions = <<>> THEN [exc |-> "", addrs |-> {}]
    ELSE LET tx == Head(transactions)
             rest == UniqueAddresses(Tail(transactions))
             from == IF tx.t = "dict" THEN Get(tx, "from") ELSE None
             to == IF tx.t = "dict" THEN Get(tx, "to") ELSE None
         IN  IF tx.t # "dict" THEN [exc |-> "AttributeError", addrs |-> {}]
             ELSE IF (Truthy(from) /\ from.t # "str") \/ (Truthy(to) /\ to.t # "str")
             THEN [exc |-> "AttributeError", addrs |-> {}]
             ELSE IF rest.exc # "" THEN rest
             ELSE [exc |-> "",
                   addrs |-> (IF Truthy(from) THEN {Lower(from.v)} ELSE {})
                             \cup (IF Truthy(to) THEN {Lower(to.v)} ELSE {})
                             \cup rest.addrs]

\* data.get("status") == "1" and data.get("message") == "OK"
EtherscanOk(data) ==
    Get(data, "status") = PyStr("1") /\ Get(data, "message") = PyStr("OK")

\* data.get("status") == "0" and "No transactions found" in data.get("message", "")
\* (TRUE, FALSE, or the TypeError of `in` on a message that is not a str)
EtherscanNoTx(data) ==
    IF Get(data, "status") # PyStr("0") THEN "false"
    ELSE LET message == GetOr(data, "message", PyStr("")) IN
         IF message.t \in {"none", "int", "float"} THEN "TypeError"
         ELSE IF message = PyStr("No transactions found") THEN "true" ELSE "false"

\* the except clauses shared by the three Etherscan fetch functions
EtherscanExcept(contract_address, resp, jsonText) ==
    IF IsRequestException(resp)
    THEN Return([contract_address |-> contract_address,
                 error |-> <<"RequestException", ExcText(resp)>>], <<>>)
    ELSE Return([contract_address |-> contract_address,
                 error |-> <<jsonText, ExcText(resp)>>], <<>>)

EtherscanUnexpected(contract_address, what) ==
    Return([contract_address |-> contract_address,
            error |-> <<"An unexpected error occurred", what>>], <<>>)

\* the guards of the Etherscan fetch functions that return before any
\* request: the returned dictionary, or <<>> when the request is made
ActiveAddressesPrecheck(cfg, contract_address) ==
    IF KeyMissing(cfg.ETHERSCAN_API_KEY, EtherscanPlaceholder)
    THEN <<[contract_address |-> contract_address,
            error |-> <<"Etherscan API key not configured.">>]>>
    ELSE IF contract_address = ""
    THEN <<[contract_address |-> contract_address,
            error |-> <<"Contract address not provided.">>]>>
    ELSE <<>>

\* the try block of fetch_etherscan_token_active_addresses
ActiveAddressesAttempt(contract_address, resp) ==
    IF resp.kind = "json" THEN
        LET data == resp.body IN
        IF data.t # "dict" THEN EtherscanUnexpected(contract_address, "AttributeError")
        ELSE IF EtherscanOk(data) THEN
            LET transactions == GetOr(data, "result", PyList(<<>>)) IN
            IF transactions.t # "list"
            THEN Return([contract_address |-> contract_address,
                         active_addresses_proxy |-> PyInt(0),
                         info |-> "No transactions found or invalid contract for tokentx."], <<>>)
            ELSE LET loop == UniqueAddresses(transactions.v) IN
                 IF loop.exc # "" THEN EtherscanUnexpected(contract_address, loop.exc)
                 ELSE Return([contract_address |-> contract_address,
                              active_addresses_proxy |-> PyInt(Cardinality(loop.addrs))], <<>>)
        ELSE IF EtherscanNoTx(data) = "TypeError"
        THEN EtherscanUnexpected(contract_address, "TypeError")
        ELSE IF EtherscanNoTx(data) = "true"
        THEN Return([contract_address |-> contract_address,
                     active_addresses_proxy |-> PyInt(0),
                     info |-> "No transactions found for this token."], <<>>)
        ELSE Return([contract_address |-> contract_address,
                     error |-> <<"Etherscan API error">>], <<>>)
    ELSE EtherscanExcept(contract_address, resp, "JSONDecodeError with Etherscan response")

\* the try block of fetch_etherscan_token_transaction_count
TransactionCountAttempt(contract_address, resp) ==
    IF resp.kind = "json" THEN
        LET data == resp.body IN
        IF data.t # "dict" THEN EtherscanUnexpected(contract_address, "AttributeError")
        ELSE IF EtherscanOk(data) THEN
            LET transactions == GetOr(data, "result", PyList(<<>>)) IN
            IF transactions.t # "list"
            THEN Return([contract_address |-> contract_address,
                         transaction_count_proxy |-> PyInt(0),
                         info |-> "No transactions found or invalid response for tokentx."], <<>>)
            ELSE Return([contract_address |-> contract_address,
                         transaction_count_proxy |-> PyInt(Len(transactions.v))], <<>>)
        ELSE IF EtherscanNoTx(data) = "TypeError"
        THEN EtherscanUnexpected(contract_address, "TypeError")
        ELSE IF EtherscanNoTx(data) = "true"
        THEN Return([contract_address |-> contract_address,
                     transaction_count_proxy |-> PyInt(0),
                     info |-> "No transactions found for this token."], <<>>)
        ELSE Return([contract_address |-> contract_address,
                     error |-> <<"Etherscan API error">>], <<>>)
    ELSE EtherscanExcept(contract_address, resp, "JSONDecodeError with Etherscan response")

\* config.COIN_MAPPING of src/utils/config.py, in the order it is written
COIN_IDS == <<"bitcoin", "ethereum", "solana", "bittensor", "near",
              "render-token", "fetch-ai">>

COIN_MAPPING ==
    [coingecko_id \in {COIN_IDS[i] : i \in DOMAIN COIN_IDS} |->
        CASE coingecko_id = "bitcoin" -> [symbol |-> "BTC", name |-> "Bitcoin"]
          [] coingecko_id = "ethereum" -> [symbol |-> "ETH", name |-> "Ethereum", decimals |-> 18]
          [] coingecko_id = "solana" -> [symbol |-> "SOL", name |-> "Solana"]
          [] coingecko_id = "bittensor" -> [symbol |-> "TAO", name |-> "Bittensor"]
          [] coingecko_id = "near" -> [symbol |-> "NEAR", name |-> "NEAR Protocol"]
          [] coingecko_id = "render-token" ->
                 [symbol |-> "RNDR", name |-> "Render Token",
                  contract_address |-> "0x6de0", decimals |-> 18]
          [] OTHER ->
                 [symbol |-> "FET", name |-> "Fetch.ai",
                  contract_address |-> "0xaea4", decimals |-> 18]]

\* the guards of fetch_etherscan_token_total_supply that return before any
\* request: the returned dictionary, or <<>> when the request is made
TotalSupplyPrecheck(cfg, contract_address, coingecko_id) ==
    IF KeyMissing(cfg.ETHERSCAN_API_KEY, EtherscanPlaceholder)
    THEN <<[contract_address |-> contract_address,
            error |-> <<"Etherscan API key not configured.">>]>>
    ELSE IF contract_address = ""
    THEN <<[contract_address |-> contract_address,
            error |-> <<"Contract address not provided for ERC20 token.">>]>>
    ELSE IF coingecko_id = ""
    THEN <<[contract_address |-> contract_address,
            error |-> <<"CoinGecko ID not provided for fetching decimals.">>]>>
    ELSE IF coingecko_id \notin DOMAIN COIN_MAPPING
            \/ "decimals" \notin DOMAIN COIN_MAPPING[coingecko_id]
    THEN <<[contract_address |-> contract_address,
            error |-> <<"Decimals not found in COIN_MAPPING">>]>>
    ELSE <<>>

\* the try block of fetch_etherscan_token_total_supply
TotalSupplyAttempt(contract_address, coingecko_id, resp) ==
    IF resp.kind = "json" THEN
        LET data == resp.body
            decimals == COIN_MAPPING[coingecko_id].decimals
        IN
        IF data.t # "dict" THEN EtherscanUnexpected(contract_address, "AttributeError")
        ELSE IF EtherscanOk(data) THEN
            LET raw_supply_str == Get(data, "result") IN
            CASE raw_supply_str.t = "none" ->
                    Return([contract_address |-> contract_address,
                            error |-> <<"Total supply not found in Etherscan response.">>], <<>>)
              [] raw_supply_str.t \in {"numstr", "int"} ->
                    Return([contract_address |-> contract_address,
                            total_supply_raw |-> raw_supply_str,
                            total_supply_adjusted |-> Quot(raw_supply_str.v, decimals),
                            total_supply_display |-> "display"], <<>>)
              [] raw_supply_str.t \in {"str", "csv"} ->
                    Return([contract_address |-> contract_address,
                            error |-> <<"Invalid total supply value from Etherscan">>], <<>>)
              [] OTHER -> EtherscanUnexpected(contract_address, "TypeError")
        ELSE Return([contract_address |-> contract_address,
                     error |-> <<"Etherscan API error for token supply">>], <<>>)
    ELSE EtherscanExcept(contract_address, resp, "JSONDecodeError for token supply")

\* MOCK_ON_CHAIN_DATA and fetch_on_chain_metrics
MOCK_ON_CHAIN_DATA ==
    [s \in {"BTC", "ETH", "SOL"} |->
        CASE s = "BTC" -> [active_addresses |-> PyInt(1200000),
                           transaction_volume_usd |-> PyFloat(1000)]
          [] s = "ETH" -> [active_addresses |-> PyInt(800000),
                           transaction_volume_usd |-> PyFloat(750)]
          [] OTHER -> [active_addresses |-> PyInt(300000),
                       transaction_volume_usd |-> PyFloat(150)]]

fetch_on_chain_metrics(coin_symbol) ==
    IF coin_symbol \in DOMAIN MOCK_ON_CHAIN_DATA
    THEN [symbol |-> coin_symbol,
          active_addresses |-> MOCK_ON_CHAIN_DATA[coin_symbol].active_addresses,
          transaction_volume_usd |-> MOCK_ON_CHAIN_DATA[coin_symbol].transaction_volume_usd]
    ELSE [symbol |-> coin_symbol,
          active_addresses |-> None,
          transaction_volume_usd |-> None,
          error |-> <<"On-chain data not found for symbol">>]

\* ------------------------------------------------------------------------
\* src/collectors/social_data.py: CryptoPanic
\* ------------------------------------------------------------------------
\* the guards of fetch_cryptopanic_news_for_coin that return before any
\* request: the returned dictionary, or <<>> when the request is made
CryptoPanicPrecheck(cfg, coin_symbol) ==
    IF KeyMissing(cfg.CRYPTO_PANIC_API_KEY, CryptoPanicPlaceholder)
    THEN <<[coin_symbol |-> coin_symbol,
            error |-> <<"CryptoPanic API key not configured.">>]>>
    ELSE IF coin_symbol = ""
    THEN <<[coin_symbol |-> coin_symbol, error |-> <<"Coin symbol not provided.">>]>>
    ELSE <<>>

\* time.sleep(2) between raise_for_status() and response.json()
cryptopanic_pause == 2

\* the try block of fetch_cryptopanic_news_for_coin
CryptoPanicAttempt(coin_symbol, resp) ==
    IF resp.kind = "json" THEN
        LET data == resp.body
            slept == <<Seconds(cryptopanic_pause)>>
        IN
        IF data.t # "dict"
        THEN Return([coin_symbol |-> coin_symbol,
                     error |-> <<"An unexpected error occurred",
                                 IF data.t \in {"none", "int", "float"}
                                 THEN "TypeError" ELSE "AttributeError">>], slept)
        ELSE IF "results" \in DOMAIN data.v /\ data.v["results"].t = "list"
        THEN Return([coin_symbol |-> coin_symbol, results |-> data.v["results"]], slept)
        ELSE IF IsNum(Get(data, "count")) /\ Get(data, "count").v = 0
                /\ ~Truthy(Get(data, "results"))
        THEN Return([coin_symbol |-> coin_symbol, results |-> PyList(<<>>),
                     info |-> "No posts found for symbol"], slept)
        ELSE Return([coin_symbol |-> coin_symbol,
                     error |-> <<"Unexpected response structure or no results">>], slept)
    ELSE IF resp.kind = "http" THEN
        IF resp.status = 401
        THEN Return([coin_symbol |-> coin_symbol,
                     error |-> <<"CryptoPanic API authentication failed (401).">>], <<>>)
        ELSE Return([coin_symbol |-> coin_symbol,
                     error |-> <<"CryptoPanic API HTTP error", ExcText(resp)>>], <<>>)
    ELSE IF resp.kind = "conn"
    THEN Return([coin_symbol |-> coin_symbol,
                 error |-> <<"RequestException", ExcText(resp)>>], <<>>)
    ELSE IF resp.cls = "requests"
    THEN Return([coin_symbol |-> coin_symbol,
                 error |-> <<"RequestException", ExcText(resp)>>],
                <<Seconds(cryptopanic_pause)>>)
    ELSE Return([coin_symbol |-> coin_symbol,
                 error |-> <<"JSONDecodeError. Raw">>], <<Seconds(cryptopanic_pause)>>)

\* ------------------------------------------------------------------------
\* src/collectors/social_data.py: filtering and sentiment of CryptoPanic posts
\* ------------------------------------------------------------------------
\* x.upper() and x.strip() of the model's strings
Upper(x) == IF x = "btc" THEN "BTC" ELSE x
Strip(x) == IF x = " " THEN "" ELSE x

IsStr(x) == x.t \in {"str", "numstr", "csv"}

\* `not title or not title.strip()`: "skip", "keep", or the AttributeError
\* of strip() on a truthy title that is not a str
TitleCheck(title) ==
    IF ~Truthy(title) THEN "skip"
    ELSE IF ~IsStr(title) THEN "AttributeError"
    ELSE IF title.t = "str" /\ Strip(title.v) = "" THEN "skip"
    ELSE "keep"

\* the inner loop over currency_mentions
SymbolMentionedFirst(currency_mentions, code) ==
    /\ currency_mentions # <<>>
    /\ Head(currency_mentions).t = "dict"
    /\ Get(Head(currency_mentions), "code") = PyStr(code)
RECURSIVE SymbolMentioned(_, _)
SymbolMentioned(currency_mentions, code) ==
    IF currency_mentions = <<>> THEN FALSE
    ELSE LET currency_obj == Head(currency_mentions) IN
         \/ (currency_obj.t = "dict" /\ Get(currency_obj, "code") = PyStr(code))
         \/ SymbolMentioned(Tail(currency_mentions), code)

\* the for loop of filter_cryptopanic_posts: the posts kept, or the
\* exception that leaves the loop
RECURSIVE FilterPosts(_, _)
FilterPosts(raw_posts, coin_symbol_to_filter) ==
    IF raw_posts = <<>> THEN [exc |-> "", posts |-> <<>>]
    ELSE LET post == Head(raw_posts)
             rest == FilterPosts(Tail(raw_posts), coin_symbol_to_filter)
             title == Get(post, "title")
             currency_mentions == Get(post, "currencies")
             symbol_mentioned ==
                 /\ currency_mentions.t = "list"
                 /\ SymbolMentioned(currency_mentions.v, Upper(coin_symbol_to_filter))
         IN  IF post.t # "dict" THEN rest
             ELSE IF TitleCheck(title) = "AttributeError"
             THEN [exc |-> "AttributeError", posts |-> <<>>]
             ELSE IF rest.exc # "" THEN rest
             ELSE IF TitleCheck(title) = "skip" \/ ~symbol_mentioned THEN rest
             ELSE [exc |-> "", posts |-> <<post>> \o rest.posts]

\* filter_cryptopanic_posts: the dictionary returned, or Exc(..) raised
filter_cryptopanic_posts(posts_data, coin_symbol_to_filter) ==
    IF "error" \in DOMAIN posts_data THEN posts_data
    ELSE IF "results" \notin DOMAIN posts_data \/ "coin_symbol" \notin DOMAIN posts_data
    THEN [coin_symbol |-> coin_symbol_to_filter,
          error |-> <<"Invalid input: 'results' or 'coin_symbol' missing from posts_data.">>]
    ELSE IF Upper(posts_data.coin_symbol) # Upper(coin_symbol_to_filter)
    THEN [coin_symbol |-> coin_symbol_to_filter, error |-> <<"Mismatch">>]
    ELSE LET loop == FilterPosts(posts_data.results.v, coin_symbol_to_filter) IN
         IF loop.exc # "" THEN Exc(loop.exc)
         ELSE [coin_symbol |-> coin_symbol_to_filter,
               filtered_results |-> PyList(loop.posts)]

\* a vote count in units of 10^-4
Units(x) == IF x.t = "int" THEN x.v * FourPlaces ELSE x.v

\* if positive_votes > 0 or negative_votes > 0
EveryTallyCounts(positive_votes, negative_votes) == TRUE
HasVotes(positive_votes, negative_votes) ==
    positive_votes.v > 0 \/ negative_votes.v > 0

\* what the body of the sentiment loop does with one post:
\* "skip" (no votes dictionary), "novotes", "score", or the exception raised
VoteCheck(post) ==
    IF post.t # "dict" THEN "skip"
    ELSE IF Get(post, "votes").t # "dict" THEN "skip"
    ELSE LET votes == Get(post, "votes")
             positive_votes == GetOr(votes, "positive", PyInt(0))
             negative_votes == GetOr(votes, "negative", PyInt(0))
         IN  IF ~IsNum(positive_votes) \/ ~IsNum(negative_votes) THEN "TypeError"
             ELSE IF ~HasVotes(positive_votes, negative_votes) THEN "novotes"
             ELSE IF Units(positive_votes) + Units(negative_votes) + FourPlaces = 0
             THEN "ZeroDivisionError"
             ELSE "score"

\* (positive_votes - negative_votes) / (positive_votes + negative_votes + 1.0)
\* as the fraction <<numerator, denominator>>, denominator > 0
PostSentiment(post) ==
    LET votes == Get(post, "votes")
        positive_votes == GetOr(votes, "positive", PyInt(0))
        negative_votes == GetOr(votes, "negative", PyInt(0))
        one == IF positive_votes.t = "int" /\ negative_votes.t = "int"
               THEN 1 ELSE FourPlaces
        p == IF one = 1 THEN positive_votes.v ELSE Units(positive_votes)
        n == IF one = 1 THEN negative_votes.v ELSE Units(negative_votes)
        den == p + n + one
    IN  IF den > 0 THEN <<p - n, den>> ELSE <<n - p, 0 - den>>

\* the for loop of calculate_aggregate_sentiment_from_posts
RECURSIVE IndividualSentiments(_)
IndividualSentiments(posts) ==
    IF posts = <<>> THEN [exc |-> "", scores |-> <<>>]
    ELSE LET post == Head(posts)
             rest == IndividualSentiments(Tail(posts))
             what == VoteCheck(post)
         IN  IF what \in {"TypeError", "ZeroDivisionError"}
             THEN [exc |-> what, scores |-> <<>>]
             ELSE IF rest.exc # "" THEN rest
             ELSE IF what = "score"
             THEN [exc |-> "", scores |-> <<PostSentiment(post)>> \o rest.scores]
             ELSE rest

\* sum(individual_sentiments) as a fraction
RECURSIVE SumFractions(_)
SumFractions(fs) ==
    IF fs = <<>> THEN <<0, 1>>
    ELSE LET r == SumFractions(Tail(fs))
             f == Head(fs)
         IN  <<f[1] * r[2] + r[1] * f[2], f[2] * r[2]>>

\* round(sum(individual_sentiments) / len(individual_sentiments), 4)
AggregatedScore(scores) ==
    IF scores = <<>> THEN 0
    ELSE LET sum == SumFractions(scores) IN
         RoundDiv(sum[1] * FourPlaces, sum[2] * Len(scores))

\* calculate_aggregate_sentiment_from_posts: the dictionary returned, or
\* Exc(..) raised
calculate_aggregate_sentiment_from_posts(filtered_posts_data) ==
    IF "error" \in DOMAIN filtered_posts_data THEN filtered_posts_data
    ELSE IF "coin_symbol" \notin DOMAIN filtered_posts_data
            \/ "filtered_results" \notin DOMAIN filtered_posts_data
    THEN [coin_symbol |-> "", error |-> <<"Invalid input: 'coin_symbol' or 'filtered_results' missing.">>]
    ELSE IF filtered_posts_data.filtered_results.t # "list"
    THEN [coin_symbol |-> filtered_posts_data.coin_symbol,
          error |-> <<"Invalid input: 'filtered_results' is not a list.">>]
    ELSE LET posts == filtered_posts_data.filtered_results.v
             loop == IndividualSentiments(posts)
         IN  IF loop.exc # "" THEN Exc(loop.exc)
             ELSE [coin_symbol |-> filtered_posts_data.coin_symbol,
                   aggregated_sentiment_score |-> PyFloat(AggregatedScore(loop.scores)),
                   articles_processed_for_sentiment |-> PyInt(Len(posts)),
                   articles_with_votes |-> PyInt(Len(loop.scores))]

\* ------------------------------------------------------------------------
\* src/processors/data_cleaner.py
\* ------------------------------------------------------------------------
\* d.get(k) and d.get(k, dflt) on a dictionary of the program
DGetOr(d, k, dflt) == IF k \in DOMAIN d THEN d[k] ELSE dflt
DGet(d, k) == DGetOr(d, k, None)

RECURSIVE Pow10(_)
Pow10(e) == IF e = 0 THEN 1 ELSE 10 * Pow10(e - 1)

\* integer division that truncates toward zero
TruncDiv(a, b) == IF a >= 0 THEN a \div b ELSE 0 - ((0 - a) \div b)

\* float(x): the float, or the ValueError / TypeError raised
ToFloat(x) ==
    CASE x.t = "float" -> x
      [] x.t = "quot" -> x
      [] x.t \in {"sci", "inf"} -> x
      [] x.t \in {"int", "numstr"} -> PyFloat(x.v * FourPlaces)
      [] x.t \in {"str", "csv"} -> Exc("ValueError")
      [] OTHER -> Exc("TypeError")

\* int(x): the int, or the ValueError / TypeError / OverflowError raised
ToInt(x) ==
    CASE x.t \in {"int", "numstr"} -> PyInt(x.v)
      [] x.t = "sci" -> PyInt(Pow10(x.e))
      [] x.t = "inf" -> Exc("OverflowError")
      [] x.t = "float" -> PyInt(TruncDiv(x.v, FourPlaces))
      [] x.t = "quot" -> IF x.exp > 9 THEN PyInt(0) ELSE PyInt(TruncDiv(x.num, Pow10(x.exp)))
      [] x.t \in {"str", "csv"} -> Exc("ValueError")
      [] OTHER -> Exc("TypeError")

\* field_definitions: (name, type_constructor, default_value)
field_definitions ==
    <<<<"price", "float">>, <<"volume", "float">>, <<"market_cap", "float">>,
      <<"active_addresses", "int">>, <<"transaction_volume_usd", "float">>,
      <<"etherscan_active_addresses_proxy", "int">>,
      <<"etherscan_transaction_count_proxy", "int">>,
      <<"etherscan_total_supply_adjusted", "float">>,
      <<"mentions", "int">>, <<"sentiment_score", "float">>,
      <<"gdelt_sentiment_score", "float">>, <<"gdelt_article_count", "int">>>>

FieldNames == {field_definitions[i][1] : i \in DOMAIN field_definitions}
FieldIndex(name) ==
    (CHOOSE i \in DOMAIN field_definitions : field_definitions[i][1] = name)
DefaultValue(type_constructor) ==
    IF type_constructor = "float" THEN PyFloat(0) ELSE PyInt(0)

\* the exceptions the conversion of a field catches
Caught(exc) == exc.v \in {"ValueError", "TypeError"}

\* the body of the for loop over field_definitions: the cleaned value and
\* the processing note, "" when there is none; the value is the exception
\* when the conversion raises one that is not caught
CleanField(raw_data, field_name, type_constructor) ==
    LET raw_value == DGet(raw_data, field_name)
        converted == IF type_constructor = "float" THEN ToFloat(raw_value)
                     ELSE ToInt(raw_value)
    IN  IF raw_value.t # "none"
        THEN IF converted.t = "exc"
             THEN IF Caught(converted)
                  THEN [value |-> DefaultValue(type_constructor), note |-> "Could not convert"]
                  ELSE [value |-> converted, note |-> ""]
             ELSE [value |-> converted, note |-> ""]
        ELSE [value |-> DefaultValue(type_constructor), note |-> "was missing or None"]

RECURSIVE ProcessingNotes(_, _)
ProcessingNotes(raw_data, i) ==
    IF i > Len(field_definitions) THEN <<>>
    ELSE LET c == CleanField(raw_data, field_definitions[i][1], field_definitions[i][2]) IN
         (IF c.note = "" THEN <<>> ELSE <<<<field_definitions[i][1], c.note>>>>)
         \o ProcessingNotes(raw_data, i + 1)

\* clean_coin_data: the dictionary returned, or Exc(..) raised
clean_coin_data(raw_data) ==
    LET fields == [name \in FieldNames |->
                      CleanField(raw_data, name, field_definitions[FieldIndex(name)][2]).value]
        processing_notes == ProcessingNotes(raw_data, 1)
    IN  IF \E name \in FieldNames : fields[name].t = "exc"
        THEN fields[field_definitions[
                 CHOOSE i \in DOMAIN field_definitions :
                    /\ fields[field_definitions[i][1]].t = "exc"
                    /\ \A j \in 1..(i - 1) : fields[field_definitions[j][1]].t # "exc"][1]]
        ELSE
        fields
        @@ [coingecko_id |-> DGet(raw_data, "coingecko_id"),
            symbol |-> DGetOr(raw_data, "symbol", PyStr("UNKNOWN")),
            cleaned_at_utc |-> "now"]
        @@ (IF "collection_errors" \in DOMAIN raw_data
            THEN [collection_errors |-> raw_data.collection_errors] ELSE <<>>)
        @@ (IF processing_notes # <<>>
            THEN [processing_notes |-> processing_notes] ELSE <<>>)

\* ------------------------------------------------------------------------
\* src/processors/scorer.py
\* ------------------------------------------------------------------------
\* METRIC_WEIGHTS, in hundredths, in the order of the dictionary
METRIC_WEIGHTS ==
    <<<<"volume", 20>>, <<"market_cap", 20>>, <<"active_addresses", 20>>,
      <<"etherscan_transaction_count_proxy", 10>>, <<"sentiment_score", 20>>,
      <<"gdelt_sentiment_score", 10>>>>

\* _calculate_mention_multiplier, in tenths
MultiplierWithBoundariesBelow(total_mentions) ==
    IF total_mentions <= 100 THEN 8
    ELSE IF total_mentions <= 1000 THEN 10
    ELSE IF total_mentions <= 10000 THEN 12
    ELSE 15
calculate_mention_multiplier(total_mentions) ==
    IF total_mentions < 100 THEN 8
    ELSE IF total_mentions < 1000 THEN 10
    ELSE IF total_mentions < 10000 THEN 12
    ELSE 15

\* math.log(1 + n) in units of 10^-6, for the integers the model meets
LogOnePlusInt(n) ==
    CASE n = 0 -> 0
      [] n = 1 -> 693147
      [] n = 2 -> 1098612
      [] n = 3 -> 1386294
      [] n = 5 -> 1791759
      [] n = 9 -> 2302585
      [] n = 300000 -> 12611541
      [] n = 800000 -> 13592368
      [] n = 1200000 -> 13997833

\* math.log(1 + 10^e) in units of 10^-6
LogOnePlusSci(e) ==
    CASE e = 12 -> 27631021

\* math.log(1 + float(value)) in units of 10^-6, or the ValueError of a
\* logarithm outside its domain
LogOnePlus(value) ==
    IF value.t = "int"
    THEN IF 1 + value.v <= 0 THEN Exc("ValueError") ELSE PyFloat(LogOnePlusInt(value.v))
    ELSE IF value.t = "inf" THEN Inf
    ELSE IF value.t = "sci" THEN PyFloat(LogOnePlusSci(value.e))
    ELSE IF FourPlaces + value.v <= 0 THEN Exc("ValueError")
    ELSE IF value.v = -5000 THEN PyFloat(-693147)
    ELSE IF value.v = 5000 THEN PyFloat(405465)
    ELSE PyFloat(LogOnePlusInt(value.v \div FourPlaces))

\* _transform_value, in units of 10^-6
transform_value(metric_name, value0) ==
    LET value == IF value0.t = "none" THEN PyInt(0) ELSE value0
        units == IF value.t = "int" THEN value.v * FourPlaces ELSE value.v
    IN  IF metric_name \in {"volume", "market_cap", "active_addresses",
                            "etherscan_transaction_count_proxy"}
        THEN LogOnePlus(value)
        ELSE IF metric_name = "sentiment_score"
        THEN IF value.t = "inf" THEN Inf ELSE PyFloat((units + FourPlaces) * 50)
        ELSE IF metric_name = "gdelt_sentiment_score"
        THEN IF value.t \in {"inf", "sci"} THEN PyFloat(1000000)
             ELSE
             LET scaled_value == (units + 10 * FourPlaces) * 5 IN
             PyFloat(IF scaled_value < 0 THEN 0
                     ELSE IF scaled_value > 1000000 THEN 1000000 ELSE scaled_value)
        ELSE PyFloat(units * 100)

scaling_factor == 7

\* round(max(0.0, min(raw * scaling_factor, 100.0)), 2) in hundredths, for
\* raw in units of 10^-8
FinalScoreUnclamped(raw) == scaling_factor * (raw \div 1000000)
FinalScore(raw) ==
    IF raw <= 0 THEN 0
    ELSE IF raw >= 1428571429 THEN 10000
    ELSE LET q == raw \div 1000000
             r == raw % 1000000
             k == (scaling_factor * r) \div 1000000
             rem == (scaling_factor * r) % 1000000
             low == scaling_factor * q + k
         IN  IF 2 * rem < 1000000 THEN low
             ELSE IF 2 * rem > 1000000 THEN low + 1
             ELSE IF low % 2 = 0 THEN low ELSE low + 1

\* cleaned_data.get(metric, 0.0): the value of a metric the record lacks
AbsentMetricCountsOne == PyFloat(FourPlaces)
AbsentMetric == PyFloat(0)

\* round(x, 4) of a contribution x in units of 10^-8
ReportedContributionTenfold(c) == RoundDiv(c, 1000)
ReportedContribution(c) == RoundDiv(c, 10000)

\* if metric == "sentiment_score" or metric == "gdelt_sentiment_score"
EveryMetricUsesMultiplier(metric) == TRUE
UsesMultiplier(metric) == metric \in {"sentiment_score", "gdelt_sentiment_score"}

\* the body of the for loop over METRIC_WEIGHTS: the entry of
\* contributing_metrics and the exact contribution in units of 10^-8; an
\* infinite contribution is flagged and its exact part left at 0
MetricContribution(cleaned_data, metric, weight, mention_multiplier) ==
    LET value == DGetOr(cleaned_data, metric, AbsentMetric)
        transformed_value == transform_value(metric, value)
        infinite == transformed_value.t = "inf"
        reported == IF infinite THEN Inf
                    ELSE PyFloat(RoundDiv(transformed_value.v, 100))
    IN  IF transformed_value.t = "exc" THEN transformed_value
        ELSE IF UsesMultiplier(metric)
        THEN LET c == IF infinite THEN 0
                      ELSE (weight \div 10) * mention_multiplier * transformed_value.v
             IN
             [t |-> "entry", exact |-> c, infinite |-> infinite,
              original_value |-> value,
              transformed_value |-> reported,
              base_weight |-> weight,
              mention_multiplier_applied |-> mention_multiplier,
              effective_weight |-> weight * mention_multiplier,
              contribution |-> IF infinite THEN Inf ELSE PyFloat(ReportedContribution(c))]
        ELSE LET c == IF infinite THEN 0 ELSE weight * transformed_value.v IN
             [t |-> "entry", exact |-> c, infinite |-> infinite,
              original_value |-> value,
              transformed_value |-> reported,
              weight |-> weight,
              contribution |-> IF infinite THEN Inf ELSE PyFloat(ReportedContribution(c))]

RECURSIVE SumContributions(_, _)
SumContributions(entries, i) ==
    IF i > Len(METRIC_WEIGHTS) THEN 0
    ELSE entries[METRIC_WEIGHTS[i][1]].exact + SumContributions(entries, i + 1)

\* the weight METRIC_WEIGHTS gives a metric
WeightOf(m) ==
    METRIC_WEIGHTS[CHOOSE i \in DOMAIN METRIC_WEIGHTS : METRIC_WEIGHTS[i][1] = m][2]

WeightedMetrics == {METRIC_WEIGHTS[i][1] : i \in DOMAIN METRIC_WEIGHTS}

\* calculate_coin_score: the dictionary returned, or Exc(..) raised
calculate_coin_score(cleaned_data) ==
    LET cp_mentions == DGetOr(cleaned_data, "mentions", PyInt(0))
        gdelt_articles == DGetOr(cleaned_data, "gdelt_article_count", PyInt(0))
    IN  IF ~IsNum(cp_mentions) \/ ~IsNum(gdelt_articles) THEN Exc("TypeError")
        ELSE
        LET total_mentions == cp_mentions.v + gdelt_articles.v
            mention_multiplier == calculate_mention_multiplier(total_mentions)
            entries == [m \in WeightedMetrics |->
                           MetricContribution(cleaned_data, m, WeightOf(m),
                                              mention_multiplier)]
            infinite == \E m \in WeightedMetrics : entries[m].infinite
            raw_weighted_score == SumContributions(entries, 1)
        IN  IF \E m \in DOMAIN entries : entries[m].t = "exc" THEN Exc("ValueError")
            ELSE [coingecko_id |-> DGet(cleaned_data, "coingecko_id"),
                  symbol |-> DGetOr(cleaned_data, "symbol", PyStr("UNKNOWN")),
                  score |-> IF infinite THEN 10000 ELSE FinalScore(raw_weighted_score),
                  raw_weighted_score |->
                      IF infinite THEN Inf
                      ELSE PyFloat(RoundDiv(raw_weighted_score, 10000)),
                  mention_multiplier_applied_to_sentiment |-> mention_multiplier,
                  scaling_factor_applied |-> scaling_factor,
                  contributing_metrics |-> entries,
                  score_calculation_timestamp_utc |-> "now"]

\* ------------------------------------------------------------------------
\* The fetch functions, one call at a time
\* ------------------------------------------------------------------------
RetryingClients == {"fetch_coingecko_market_data", "fetch_coingecko_historical_data",
                    "fetch_gdelt_doc_api_news_sentiment"}
SingleShotClients == {"fetch_etherscan_token_active_addresses",
                      "fetch_etherscan_token_transaction_count",
                      "fetch_etherscan_token_total_supply",
                      "fetch_cryptopanic_news_for_coin"}
Clients == RetryingClients \cup SingleShotClients

\* range(max_retries); the other functions have one try block and no loop
MaxRetries(c) ==
    CASE c = "fetch_coingecko_market_data" -> market_max_retries
      [] c = "fetch_coingecko_historical_data" -> historical_max_retries
      [] c = "fetch_gdelt_doc_api_news_sentiment" -> gdelt_max_retries
      [] OTHER -> 1

BaseDelay(c) ==
    CASE c = "fetch_coingecko_market_data" -> market_base_delay
      [] c = "fetch_coingecko_historical_data" -> historical_base_delay
      [] OTHER -> gdelt_base_delay

\* what the function returns before its first request, if it does
Precheck(c, a, cfg) ==
    CASE c = "fetch_etherscan_token_active_addresses" ->
             ActiveAddressesPrecheck(cfg, a.contract_address)
      [] c = "fetch_etherscan_token_transaction_count" ->
             ActiveAddressesPrecheck(cfg, a.contract_address)
      [] c = "fetch_etherscan_token_total_supply" ->
             TotalSupplyPrecheck(cfg, a.contract_address, a.coingecko_id)
      [] c = "fetch_cryptopanic_news_for_coin" -> CryptoPanicPrecheck(cfg, a.coin_symbol)
      [] OTHER -> <<>>

\* one request of the function and the code that handles its response
Attempt(c, a, att, resp, jitter) ==
    CASE c = "fetch_coingecko_market_data" -> MarketAttempt(a.coin_id, att, resp, jitter)
      [] c = "fetch_coingecko_historical_data" -> HistoricalAttempt(a.coin_id, att, resp, jitter)
      [] c = "fetch_gdelt_doc_api_news_sentiment" -> GdeltAttempt(a.query, att, resp, jitter)
      [] c = "fetch_etherscan_token_active_addresses" ->
             ActiveAddressesAttempt(a.contract_address, resp)
      [] c = "fetch_etherscan_token_transaction_count" ->
             TransactionCountAttempt(a.contract_address, resp)
      [] c = "fetch_etherscan_token_total_supply" ->
             TotalSupplyAttempt(a.contract_address, a.coingecko_id, resp)
      [] OTHER -> CryptoPanicAttempt(a.coin_symbol, resp)

\* the return that follows the for loop
LoopExit(c, a) ==
    CASE c = "fetch_coingecko_market_data" -> MarketLoopExit
      [] c = "fetch_coingecko_historical_data" -> HistoricalLoopExit
      [] OTHER -> GdeltLoopExit(a.query)

\* ------------------------------------------------------------------------
\* Inputs of the model: credentials, arguments and upstream responses
\* ------------------------------------------------------------------------
Configs ==
    [ETHERSCAN_API_KEY : {EtherscanPlaceholder, "etherscan-key"},
     CRYPTO_PANIC_API_KEY : {CryptoPanicPlaceholder, "cryptopanic-key"}]

Currency(code) == PyDict([code |-> PyStr(code)])
Votes(p, n) == PyDict([positive |-> p, negative |-> n])
Post(title, currencies, votes) ==
    PyDict([title |-> title, currencies |-> currencies, votes |-> votes])

\* an element of Etherscan's tokentx result
Tx(from, to) == PyDict([from |-> from, to |-> to])

MarketCoin(price, volume, market_cap) ==
    PyDict([id |-> PyStr("id"), current_price |-> price,
            total_volume |-> volume, market_cap |-> market_cap])

Article(tone) == PyDict([tone |-> tone])

\* bodies a 200 response can decode to, per fetch function
Bodies(c) ==
    CASE c = "fetch_coingecko_market_data" ->
             {PyList(<<MarketCoin(PyFloat(30000), PyFloat(50000), PyFloat(90000))>>),
              PyList(<<MarketCoin(None, PyFloat(50000), PyFloat(90000))>>),
              PyList(<<PyDict([id |-> PyStr("id")])>>),
              PyList(<<>>), EmptyDict, None,
              PyDict([status |-> PyStr("error")]),
              PyList(<<PyInt(5)>>), PyStr("error")}
      [] c = "fetch_coingecko_historical_data" ->
             {PyDict([prices |-> PyList(<<PyFloat(30000)>>)]), EmptyDict,
              PyList(<<>>), None}
      [] c = "fetch_gdelt_doc_api_news_sentiment" ->
             {PyDict([articles |-> PyList(<<Article(Csv(<<<<"num", 25000>>, <<"num", 10000>>>>)),
                                            Article(Csv(<<<<"num", -10000>>>>))>>)]),
              PyDict([articles |-> PyList(<<Article(Csv(<<<<"txt">>>>)), PyInt(3)>>)]),
              PyDict([articles |-> PyList(<<Article(PyFloat(25000))>>)]),
              PyDict([articles |-> None]),
              EmptyDict, PyList(<<>>)}
      [] c = "fetch_etherscan_token_active_addresses" ->
             {PyDict([status |-> PyStr("1"), message |-> PyStr("OK"),
                      result |-> PyList(<<Tx(PyStr("0xA"), PyStr("0xb")),
                                          Tx(PyStr("0xa"), PyStr(""))>>)]),
              PyDict([status |-> PyStr("1"), message |-> PyStr("OK"),
                      result |-> PyList(<<Tx(PyInt(7), PyStr("0xb"))>>)]),
              PyDict([status |-> PyStr("1"), message |-> PyStr("OK"),
                      result |-> PyList(<<PyStr("tx")>>)]),
              PyDict([status |-> PyStr("1"), message |-> PyStr("OK"),
                      result |-> PyStr("Invalid address")]),
              PyDict([status |-> PyStr("0"), message |-> PyStr("No transactions found")]),
              PyDict([status |-> PyStr("0"), message |-> None]),
              PyDict([status |-> PyStr("0"), message |-> PyStr("NOTOK")]),
              PyList(<<>>)}
      [] c = "fetch_etherscan_token_transaction_count" ->
             {PyDict([status |-> PyStr("1"), message |-> PyStr("OK"),
                      result |-> PyList(<<Tx(PyStr("0xA"), PyStr("0xb")),
                                          Tx(PyStr("0xa"), PyStr(""))>>)]),
              PyDict([status |-> PyStr("1"), message |-> PyStr("OK"),
                      result |-> PyStr("Invalid address")]),
              PyDict([status |-> PyStr("0"), message |-> PyStr("No transactions found")]),
              PyDict([status |-> PyStr("0"), message |-> None]),
              PyDict([status |-> PyStr("0"), message |-> PyStr("NOTOK")]),
              PyList(<<>>)}
      [] c = "fetch_etherscan_token_total_supply" ->
             {PyDict([status |-> PyStr("1"), message |-> PyStr("OK"), result |-> NumStr(5000)]),
              PyDict([status |-> PyStr("1"), message |-> PyStr("OK"), result |-> PyStr("n/a")]),
              PyDict([status |-> PyStr("1"), message |-> PyStr("OK"), result |-> PyList(<<>>)]),
              PyDict([status |-> PyStr("1"), message |-> PyStr("OK")]),
              PyDict([status |-> PyStr("0"), message |-> PyStr("NOTOK")]),
              PyList(<<>>)}
      [] OTHER ->
             {PyDict([results |-> PyList(<<Post(PyStr("T"), PyList(<<Currency("BTC")>>),
                                                Votes(PyInt(10), PyInt(2)))>>)]),
              PyDict([results |-> PyList(<<>>)]),
              PyDict([count |-> PyInt(0)]),
              PyDict([count |-> PyInt(3)]),
              PyDict([results |-> PyStr("none")]),
              PyList(<<>>), None}

HttpStatuses == {429, 500, 404, 401}

Responses(c) ==
    {ConnError, Undecodable("requests"), Undecodable("json")}
    \cup {HttpError(st) : st \in HttpStatuses}
    \cup {Json(b) : b \in Bodies(c)}

ArgsOf(c) ==
    CASE c \in {"fetch_coingecko_market_data", "fetch_coingecko_historical_data"} ->
             {[coin_id |-> "bitcoin"]}
      [] c = "fetch_gdelt_doc_api_news_sentiment" -> {[query |-> "Bitcoin OR BTC"]}
      [] c \in {"fetch_etherscan_token_active_addresses",
                "fetch_etherscan_token_transaction_count"} ->
             {[contract_address |-> "0x6de0"], [contract_address |-> ""]}
      [] c = "fetch_etherscan_token_total_supply" ->
             {[contract_address |-> "0x6de0", coingecko_id |-> "render-token"],
              [contract_address |-> "0x6de0", coingecko_id |-> "bitcoin"],
              [contract_address |-> "0x6de0", coingecko_id |-> ""],
              [contract_address |-> "", coingecko_id |-> "render-token"]}
      [] OTHER -> {[coin_symbol |-> "BTC"], [coin_symbol |-> ""]}

\* ------------------------------------------------------------------------
\* SpecFetch: one call of one fetch function
\* ------------------------------------------------------------------------
NoResult == <<>>
NoDict == <<>>

\* the pipeline is not running
PipelineOff ==
    /\ coin_mapping = <<>>
    /\ pc = "off"
    /\ loader = [i |-> 0, loaded_count |-> 0, skipped_existing_count |-> 0,
                 failed_count |-> 0]
    /\ batch = 0
    /\ queue = <<>>
    /\ batch_2_ids = <<>>
    /\ current_coin = ""
    /\ combined_data = NoDict
    /\ errors = <<>>
    /\ collected = NoDict
    /\ cleaned = NoDict
    /\ scored = NoDict
    /\ coins_table = <<>>
    /\ metrics_table = <<>>
    /\ scores_table = <<>>
    /\ calls = <<>>
    /\ score_writes = <<>>
    /\ db_failures = 0
    /\ sleeps = {}
    /\ summaries_table = <<>>
    /\ discord_calls = <<>>

NoPending == [delay |-> 0, then |-> "none", result |-> NoResult]

FetchInit ==
    /\ config \in Configs
    /\ client \in Clients
    /\ args \in ArgsOf(client)
    /\ attempt = 0
    /\ fpc = "call"
    /\ pending = NoPending
    /\ events = <<>>
    /\ result = NoResult
    /\ PipelineOff

\* the code of the function up to its first request
Enter ==
    /\ fpc = "call"
    /\ LET early == Precheck(client, args, config) IN
       IF early # <<>>
       THEN /\ result' = early[1]
            /\ fpc' = "returned"
       ELSE /\ fpc' = "request"
            /\ UNCHANGED result
    /\ UNCHANGED <<config, client, args, attempt, pending, events, pipeVars>>

\* requests.get(...) and the handling of what it comes to, up to the next
\* time.sleep or the return
Request ==
    /\ fpc = "request"
    /\ \E resp \in Responses(client), jitter \in Jitters :
          LET out == Attempt(client, args, attempt, resp, jitter) IN
          /\ events' = Append(events, [e |-> "request", resp |-> resp])
          /\ CASE out.op = "retry" ->
                     /\ pending' = [delay |-> out.delay, then |-> "continue",
                                    result |-> NoResult]
                     /\ fpc' = "sleep"
                     /\ UNCHANGED result
               [] out.op = "return" /\ out.slept # <<>> ->
                     /\ pending' = [delay |-> out.slept[1], then |-> "return",
                                    result |-> out.result]
                     /\ fpc' = "sleep"
                     /\ UNCHANGED result
               [] out.op = "return" /\ out.slept = <<>> ->
                     /\ result' = out.result
                     /\ fpc' = "returned"
                     /\ UNCHANGED pending
               [] OTHER ->
                     /\ fpc' = "raised"
                     /\ UNCHANGED <<pending, result>>
    /\ UNCHANGED <<config, client, args, attempt, pipeVars>>

\* time.sleep(delay) and what follows it: the next iteration of the loop,
\* the return after the loop, or the return of the parsed response
Sleep ==
    /\ fpc = "sleep"
    /\ events' = Append(events, [e |-> "sleep", delay |-> pending.delay])
    /\ pending' = NoPending
    /\ IF pending.then = "continue"
       THEN /\ attempt' = attempt + 1
            /\ IF attempt + 1 < MaxRetries(client)
               THEN /\ fpc' = "request"
                    /\ UNCHANGED result
               ELSE /\ fpc' = "returned"
                    /\ result' = LoopExit(client, args)
       ELSE /\ result' = pending.result
            /\ fpc' = "returned"
            /\ UNCHANGED attempt
    /\ UNCHANGED <<config, client, args, pipeVars>>

FetchNext == Enter \/ Request \/ Sleep

SpecFetch == FetchInit /\ [][FetchNext]_vars

\* requests.get is given timeout=... by the CoinGecko and GDELT functions
\* only; without one it waits for the server as long as the server is silent
HasTimeout(c) == c \in RetryingClients

\* the interpreter runs a call on to its next statement; a request comes to
\* a response or an exception within its timeout, when it has one
SpecFetchFair ==
    /\ SpecFetch
    /\ WF_vars(Enter)
    /\ WF_vars(Sleep)
    /\ WF_vars(Request /\ HasTimeout(client))

\* ------------------------------------------------------------------------
\* The fetch functions, run to their return
\* ------------------------------------------------------------------------
\* the for loop of a fetch function from iteration att on, resps[i] being
\* what the i-th request comes to: the dictionary returned, the number of
\* requests made and the time.sleep calls, in order
RECURSIVE RunLoop(_, _, _, _, _)
RunLoop(c, a, att, resps, jitter) ==
    IF att >= MaxRetries(c)
    THEN [result |-> LoopExit(c, a), requests |-> 0, slept |-> <<>>, raised |-> FALSE]
    ELSE LET out == Attempt(c, a, att, resps[att + 1], jitter) IN
         CASE out.op = "return" ->
                  [result |-> out.result, requests |-> 1, slept |-> out.slept,
                   raised |-> FALSE]
           [] out.op = "retry" ->
                  LET r == RunLoop(c, a, att + 1, resps, jitter) IN
                  [r EXCEPT !.requests = @ + 1, !.slept = <<out.delay>> \o @]
           [] OTHER ->
                  [result |-> NoResult, requests |-> 1, slept |-> <<>>, raised |-> TRUE]

RunFetch(c, a, cfg, resps, jitter) ==
    LET early == Precheck(c, a, cfg) IN
    IF early # <<>>
    THEN [result |-> early[1], requests |-> 0, slept |-> <<>>, raised |-> FALSE]
    ELSE RunLoop(c, a, 0, resps, jitter)

\* k rate-limited responses followed by the response final
Script(k, final) == [i \in 1..(k + 1) |-> IF i <= k THEN HttpError(429) ELSE final]

\* ------------------------------------------------------------------------
\* src/collectors: the pings run_full_data_pipeline starts with
\* ------------------------------------------------------------------------
\* ping_etherscan: the boolean returned, or the exception raised (the
\* function has no handler for what is neither a RequestException nor a
\* JSONDecodeError)
ping_etherscan(cfg, resp) ==
    LET return(x) == [ret |-> x, exc |-> ""]
        raise(e) == [ret |-> FALSE, exc |-> e]
    IN  IF KeyMissing(cfg.ETHERSCAN_API_KEY, EtherscanPlaceholder) THEN return(FALSE)
        ELSE IF resp.kind # "json" THEN return(FALSE)
        ELSE IF resp.body.t # "dict" THEN raise("AttributeError")
        ELSE IF ~EtherscanOk(resp.body) THEN return(FALSE)
        ELSE IF GetOr(resp.body, "result", EmptyDict).t # "dict"
        THEN raise("AttributeError")
        ELSE return(TRUE)

\* ping_cryptopanic: the boolean returned or the exception raised, and
\* whether its time.sleep(2) was reached (the default of
\* data.get('count', ...) is evaluated whether or not 'count' is there)
ping_cryptopanic(cfg, resp) ==
    LET return(x, slept) == [ret |-> x, exc |-> "", slept |-> slept]
        raise(e) == [ret |-> FALSE, exc |-> e, slept |-> TRUE]
    IN  IF KeyMissing(cfg.CRYPTO_PANIC_API_KEY, CryptoPanicPlaceholder)
        THEN return(FALSE, FALSE)
        ELSE IF resp.kind \in {"conn", "http"} THEN return(FALSE, FALSE)
        ELSE IF resp.kind = "undecodable" THEN return(FALSE, TRUE)
        ELSE IF resp.body.t \notin {"dict", "list", "str"} THEN raise("TypeError")
        ELSE IF resp.body.t # "dict" THEN return(FALSE, TRUE)
        ELSE IF "count" \notin DOMAIN resp.body.v /\ "results" \notin DOMAIN resp.body.v
        THEN return(FALSE, TRUE)
        ELSE IF "results" \in DOMAIN resp.body.v
                /\ Get(resp.body, "results").t \notin {"list", "str", "dict"}
        THEN raise("TypeError")
        ELSE return(TRUE, TRUE)

PingResponses ==
    {ConnError, HttpError(401), Undecodable("json"),
     Json(PyDict([status |-> PyStr("1"), message |-> PyStr("OK"),
                  result |-> PyDict([ethusd |-> PyStr("3000")])])),
     Json(PyDict([status |-> PyStr("1"), message |-> PyStr("OK"),
                  result |-> PyStr("rate limit")])),
     Json(PyDict([count |-> PyInt(3)])),
     Json(PyDict([results |-> None])),
     Json(None)}

\* ------------------------------------------------------------------------
\* src/database: the tables, as sequences of rows in insertion order
\* ------------------------------------------------------------------------
\* get_coin_id_by_symbol: the id of the first row with the symbol, None when
\* there is none or the read failed; row i of coins has id i
get_coin_id_by_symbol(table, symbol, read_ok) ==
    IF read_ok /\ \E i \in DOMAIN table : table[i].symbol = symbol
    THEN PyInt(CHOOSE i \in DOMAIN table :
                 /\ table[i].symbol = symbol
                 /\ \A j \in DOMAIN table : table[j].symbol = symbol => i <= j)
    ELSE None

\* execute_write_query of an INSERT: the table afterwards
execute_write_query(table, row, write_ok) ==
    IF write_ok THEN Append(table, row) ELSE table

\* the outcomes of a read and, when `writes`, of a write that follows it:
\* each call can fail, MaxDbFailures times in a run
DbOutcomes(failures, read_ok, write_ok, writes) ==
    LET failed == (IF read_ok THEN 0 ELSE 1) + (IF writes /\ ~write_ok THEN 1 ELSE 0)
    IN  /\ failures + failed <= MaxDbFailures
        /\ ~writes => write_ok

\* ------------------------------------------------------------------------
\* Spec: run_full_data_pipeline
\* ------------------------------------------------------------------------
\* the ids a run's mapping is drawn from: one with mock on-chain data, one
\* without, one ERC20 token
TrackedIds == <<"bitcoin", "near", "render-token">>

Mappings ==
    {SelectSeq(TrackedIds, LAMBDA id : id \in chosen) :
        chosen \in {c \in SUBSET {TrackedIds[i] : i \in DOMAIN TrackedIds} :
                       Cardinality(c) <= MaxCoins}}

SymbolOf(id) == COIN_MAPPING[id].symbol

\* the rows of coins an earlier run left
LoadedRows(mapping) ==
    [i \in DOMAIN mapping |-> [symbol |-> SymbolOf(mapping[i]),
                               name |-> COIN_MAPPING[mapping[i]].name]]

NoLoader == [i |-> 0, loaded_count |-> 0, skipped_existing_count |-> 0,
             failed_count |-> 0]

FetchOff ==
    /\ client = "none"
    /\ args = <<>>
    /\ attempt = 0
    /\ fpc = "off"
    /\ pending = NoPending
    /\ events = <<>>
    /\ result = NoResult

Init ==
    /\ config \in Configs
    /\ FetchOff
    /\ coin_mapping \in Mappings
    /\ pc = "ping"
    /\ loader = NoLoader
    /\ batch = 0
    /\ queue = <<>>
    /\ batch_2_ids = <<>>
    /\ current_coin = ""
    /\ combined_data = NoDict
    /\ errors = <<>>
    /\ collected = NoDict
    /\ cleaned = NoDict
    /\ scored = NoDict
    /\ coins_table \in {<<>>, LoadedRows(coin_mapping)}
    /\ metrics_table = <<>>
    /\ scores_table = <<>>
    /\ calls = <<>>
    /\ score_writes = <<>>
    /\ db_failures = 0
    /\ sleeps = {}
    /\ summaries_table = <<>>
    /\ discord_calls = <<>>

\* the locals of process_and_save_coin_data are gone when it returns
NoCoinButItsCalls ==
    /\ current_coin' = ""
    /\ combined_data' = NoDict
    /\ errors' = <<>>
    /\ collected' = NoDict
    /\ cleaned' = NoDict
    /\ scored' = NoDict
    /\ UNCHANGED calls
NoCoin ==
    /\ current_coin' = ""
    /\ combined_data' = NoDict
    /\ errors' = <<>>
    /\ collected' = NoDict
    /\ cleaned' = NoDict
    /\ scored' = NoDict
    /\ calls' = <<>>

perCoin == <<current_coin, combined_data, errors, collected, cleaned, scored, calls>>
tables == <<coins_table, metrics_table, scores_table, score_writes, db_failures>>
batches == <<batch, queue, batch_2_ids>>
reports == <<summaries_table, discord_calls>>

\* the initial API pings
Pings ==
    /\ pc = "ping"
    /\ \E r1 \in PingResponses, r2 \in PingResponses :
          LET erc20 == \E i \in DOMAIN coin_mapping :
                           "contract_address" \in DOMAIN COIN_MAPPING[coin_mapping[i]]
              keyed == ~KeyMissing(config.CRYPTO_PANIC_API_KEY, CryptoPanicPlaceholder)
              p1 == ping_etherscan(config, r1)
              p2 == ping_cryptopanic(config, r2)
          IN  IF erc20 /\ p1.exc # ""
              THEN /\ pc' = "raised"
                   /\ UNCHANGED sleeps
              ELSE /\ sleeps' = IF keyed /\ p2.slept
                                THEN sleeps \cup {"ping_cryptopanic"} ELSE sleeps
                   /\ pc' = IF keyed /\ p2.exc # "" THEN "raised" ELSE "load_coins"
    /\ UNCHANGED <<fetchVars, reports, coin_mapping, loader, batches, perCoin, tables>>

\* initialize_database, and one iteration of the for loop of
\* load_coins_from_mapping
LoadCoin ==
    /\ pc = "load_coins"
    /\ coin_mapping # <<>>
    /\ loader.i < Len(coin_mapping)
    /\ \E read_ok \in BOOLEAN, write_ok \in BOOLEAN :
          LET details == COIN_MAPPING[coin_mapping[loader.i + 1]]
              existing_coin_id == get_coin_id_by_symbol(coins_table, details.symbol, read_ok)
              \* schema.sql decides whether the INSERT of a symbol that has
              \* a row is rejected; it adds a row or fails
              rejected == /\ existing_coin_id = None
                          /\ \E i \in DOMAIN coins_table :
                                 coins_table[i].symbol = details.symbol
                          /\ ~write_ok
          IN  /\ DbOutcomes(db_failures, read_ok, write_ok \/ rejected,
                            existing_coin_id = None)
              /\ db_failures' = db_failures + (IF read_ok THEN 0 ELSE 1)
                                            + (IF write_ok \/ rejected THEN 0 ELSE 1)
              /\ IF "symbol" \notin DOMAIN details \/ "name" \notin DOMAIN details
                 THEN /\ loader' = [loader EXCEPT !.i = @ + 1, !.failed_count = @ + 1]
                      /\ UNCHANGED coins_table
                 ELSE IF existing_coin_id # None
                 THEN /\ loader' = [loader EXCEPT !.i = @ + 1,
                                                  !.skipped_existing_count = @ + 1]
                      /\ UNCHANGED coins_table
                 ELSE /\ coins_table' = execute_write_query(coins_table,
                                            [symbol |-> details.symbol, name |-> details.name],
                                            write_ok)
                      /\ loader' = IF write_ok
                                   THEN [loader EXCEPT !.i = @ + 1, !.loaded_count = @ + 1]
                                   ELSE [loader EXCEPT !.i = @ + 1, !.failed_count = @ + 1]
    /\ UNCHANGED <<fetchVars, reports, coin_mapping, pc, batches, perCoin,
                   metrics_table, scores_table, score_writes, sleeps>>

\* load_coins_from_mapping returns False: the run is abandoned
LoadCoinsFailed ==
    /\ pc = "load_coins"
    /\ \/ coin_mapping = <<>>
       \/ loader.i = Len(coin_mapping) /\ loader.failed_count > 0
    /\ pc' = "aborted"
    /\ UNCHANGED <<fetchVars, reports, coin_mapping, loader, batches, perCoin, tables, sleeps>>

\* load_coins_from_mapping returns True: the ids are split into two batches
\* and the first for loop starts
StartBatches ==
    /\ pc = "load_coins"
    /\ coin_mapping # <<>>
    /\ loader.i = Len(coin_mapping)
    /\ loader.failed_count = 0
    /\ LET num_coins == Len(coin_mapping)
           batch_size_1 == (num_coins + 1) \div 2
       IN  /\ queue' = SubSeq(coin_mapping, 1, batch_size_1)
           /\ batch_2_ids' = SubSeq(coin_mapping, batch_size_1 + 1, num_coins)
    /\ batch' = 1
    /\ loader' = NoLoader
    /\ pc' = "for"
    /\ UNCHANGED <<fetchVars, reports, coin_mapping, perCoin, tables, sleeps>>

\* the dictionary collect_all_data_for_coin starts from
InitialCombinedData(coingecko_id, symbol) ==
    [coingecko_id |-> PyStr(coingecko_id),
     symbol |-> PyStr(symbol),
     price |-> None,
     volume |-> None,
     market_cap |-> None,
     active_addresses |-> None,
     transaction_volume_usd |-> None,
     etherscan_active_addresses_proxy |-> None,
     etherscan_transaction_count_proxy |-> None,
     etherscan_total_supply_adjusted |-> None,
     mentions |-> None,
     sentiment_score |-> None,
     gdelt_sentiment_score |-> None,
     gdelt_article_count |-> None]

\* the next iteration of a for loop: process_and_save_coin_data is called
\* and collect_all_data_for_coin reaches its first fetch
BeginCoinWithoutLookup ==
    /\ pc = "for"
    /\ queue # <<>>
    /\ current_coin' = Head(queue)
    /\ queue' = Tail(queue)
    /\ combined_data' = InitialCombinedData(Head(queue), Head(queue))
    /\ errors' = <<>>
    /\ pc' = "market"
    /\ UNCHANGED <<fetchVars, reports, coin_mapping, loader, batch, batch_2_ids, collected,
                   cleaned, scored, calls, tables, sleeps>>
BeginCoin ==
    /\ pc = "for"
    /\ queue # <<>>
    /\ current_coin' = Head(queue)
    /\ queue' = Tail(queue)
    /\ IF Head(queue) \notin DOMAIN COIN_MAPPING
       THEN /\ pc' = "for"
            /\ UNCHANGED <<combined_data, errors>>
       ELSE /\ combined_data' = InitialCombinedData(Head(queue), SymbolOf(Head(queue)))
            /\ errors' = <<>>
            /\ pc' = "market"
    /\ UNCHANGED <<fetchVars, reports, coin_mapping, loader, batch, batch_2_ids, collected,
                   cleaned, scored, calls, tables, sleeps>>

\* the first batch is done and there is a second one: time.sleep(60 * 10)
BatchPauseBeforeTheBatchIsDone ==
    /\ pc = "for"
    /\ batch = 1
    /\ batch_2_ids # <<>>
    /\ sleeps' = sleeps \cup {"batch_pause"}
    /\ queue' = queue \o batch_2_ids
    /\ batch' = 2
    /\ UNCHANGED <<fetchVars, reports, coin_mapping, loader, pc, batch_2_ids, perCoin, tables>>
BatchPause ==
    /\ pc = "for"
    /\ queue = <<>>
    /\ batch = 1
    /\ batch_2_ids # <<>>
    /\ sleeps' = sleeps \cup {"batch_pause"}
    /\ queue' = batch_2_ids
    /\ batch' = 2
    /\ UNCHANGED <<fetchVars, reports, coin_mapping, loader, pc, batch_2_ids, perCoin, tables>>

\* the last for loop is done: run_full_data_pipeline returns
Finish ==
    /\ pc = "for"
    /\ queue = <<>>
    /\ batch = 2 \/ batch_2_ids = <<>>
    /\ pc' = "finished"
    /\ UNCHANGED <<fetchVars, reports, coin_mapping, loader, batches, perCoin, tables, sleeps>>

\* what the requests of one call of a fetch function come to, in order
PipelineScripts(c, symbol) ==
    CASE c = "fetch_coingecko_market_data" ->
             {Script(0, Json(PyList(<<MarketCoin(PyFloat(30000), PyFloat(50000), PyFloat(90000))>>))),
              Script(1, Json(PyList(<<MarketCoin(PyFloat(30000), PyFloat(50000), PyFloat(90000))>>))),
              Script(0, Json(PyList(<<MarketCoin(None, PyFloat(50000), PyFloat(90000))>>))),
              Script(0, HttpError(500)),
              Script(4, HttpError(429))}
      [] c = "fetch_gdelt_doc_api_news_sentiment" ->
             {Script(0, Json(PyDict([articles |-> PyList(<<Article(Csv(<<<<"num", 25000>>, <<"num", 10000>>>>)),
                                                           Article(Csv(<<<<"num", -10000>>>>))>>)]))),
              Script(1, Json(PyDict([articles |-> PyList(<<Article(Csv(<<<<"txt">>>>)), PyInt(3)>>)]))),
              Script(4, HttpError(429))}
      [] c \in {"fetch_etherscan_token_active_addresses",
                "fetch_etherscan_token_transaction_count"} ->
             {Script(0, Json(PyDict([status |-> PyStr("1"), message |-> PyStr("OK"),
                                     result |-> PyList(<<Tx(PyStr("0xA"), PyStr("0xb")),
                                                         Tx(PyStr("0xa"), PyStr(""))>>)]))),
              Script(0, HttpError(500))}
      [] c = "fetch_etherscan_token_total_supply" ->
             {Script(0, Json(PyDict([status |-> PyStr("1"), message |-> PyStr("OK"),
                                     result |-> NumStr(5000)]))),
              Script(0, Json(PyDict([status |-> PyStr("1"), message |-> PyStr("OK"),
                                     result |-> PyStr("n/a")])))}
      [] OTHER ->
             {Script(0, Json(PyDict([results |-> PyList(<<
                  Post(PyStr("T"), PyList(<<Currency(symbol)>>), Votes(PyInt(10), PyInt(2)))>>)]))),
              Script(0, Json(PyDict([results |-> PyList(<<
                  Post(PyInt(7), PyList(<<Currency(symbol)>>), Votes(PyInt(10), PyInt(2)))>>)]))),
              Script(0, Json(PyDict([results |-> PyList(<<
                  Post(PyStr("T"), PyList(<<Currency(symbol)>>), Votes(PyStr("3"), PyInt(2)))>>)]))),
              Script(0, Json(PyDict([results |-> PyList(<<
                  Post(PyStr("T"), PyList(<<Currency(symbol)>>), Votes(PyInt(1), PyInt(-2)))>>)]))),
              Script(0, HttpError(500))}

\* the calls of a fetch function the pipeline can see: what RunFetch gives
\* for each script and jitter
Fetched(c, a, cfg, symbol) ==
    {RunFetch(c, a, cfg, resps, jitter) :
        resps \in PipelineScripts(c, symbol), jitter \in Jitters}

\* the time.sleep calls of a call of a fetch function, by the place in the code
SleepSites(c, r) ==
    IF r.slept = <<>> THEN {}
    ELSE IF c \in RetryingClients THEN {"retry_backoff"}
    ELSE {"cryptopanic_pause"}

\* a call of a fetch function, and whether what it gave carries "error"
Call(fn, data) == [fn |-> fn, failed |-> "error" \in DOMAIN data]

\* if "error" in data: errors.append(f"{label}: {data['error']}")
AppendError(errs, label, data) ==
    IF "error" \in DOMAIN data THEN Append(errs, <<label, data.error>>) ELSE errs

\* 1. market data from CoinGecko
CollectMarket ==
    /\ pc = "market"
    /\ \E r \in Fetched("fetch_coingecko_market_data", [coin_id |-> current_coin],
                        config, SymbolOf(current_coin)) :
          LET market_data == r.result
              contract_address == DGetOr(COIN_MAPPING[current_coin], "contract_address", "")
          IN  /\ errors' = AppendError(errors, "CoinGecko MarketData", market_data)
              /\ combined_data' =
                     IF "error" \in DOMAIN market_data THEN combined_data
                     ELSE [combined_data EXCEPT
                              !.price = DGet(market_data, "price"),
                              !.volume = DGet(market_data, "volume"),
                              !.market_cap = DGet(market_data, "market_cap"),
                              !.transaction_volume_usd = DGet(market_data, "volume")]
              /\ sleeps' = sleeps \cup SleepSites("fetch_coingecko_market_data", r)
              /\ pc' = IF contract_address # "" /\ current_coin # "ethereum"
                       THEN "active_addresses" ELSE "mock_on_chain"
              /\ calls' = Append(calls, Call("fetch_coingecko_market_data", market_data))
    /\ UNCHANGED <<fetchVars, reports, coin_mapping, loader, batches, current_coin,
                   collected, cleaned, scored, tables>>

\* 2. on-chain metrics of an ERC20 token, from Etherscan
CollectActiveAddresses ==
    /\ pc = "active_addresses"
    /\ \E r \in Fetched("fetch_etherscan_token_active_addresses",
                        [contract_address |-> COIN_MAPPING[current_coin].contract_address],
                        config, SymbolOf(current_coin)) :
          LET active_addr_data == r.result IN
          /\ errors' = AppendError(errors, "Etherscan ActiveAddresses", active_addr_data)
          /\ combined_data' =
                 IF "error" \in DOMAIN active_addr_data THEN combined_data
                 ELSE [combined_data EXCEPT
                          !.etherscan_active_addresses_proxy =
                              DGet(active_addr_data, "active_addresses_proxy"),
                          !.active_addresses =
                              DGet(active_addr_data, "active_addresses_proxy")]
          /\ calls' = Append(calls, Call("fetch_etherscan_token_active_addresses",
                                         active_addr_data))
    /\ pc' = "transaction_count"
    /\ UNCHANGED <<fetchVars, reports, coin_mapping, loader, batches, current_coin,
                   collected, cleaned, scored, tables, sleeps>>

CollectTransactionCount ==
    /\ pc = "transaction_count"
    /\ \E r \in Fetched("fetch_etherscan_token_transaction_count",
                        [contract_address |-> COIN_MAPPING[current_coin].contract_address],
                        config, SymbolOf(current_coin)) :
          LET tx_count_data == r.result IN
          /\ errors' = AppendError(errors, "Etherscan TxCount", tx_count_data)
          /\ combined_data' =
                 IF "error" \in DOMAIN tx_count_data THEN combined_data
                 ELSE [combined_data EXCEPT
                          !.etherscan_transaction_count_proxy =
                              DGet(tx_count_data, "transaction_count_proxy")]
          /\ calls' = Append(calls, Call("fetch_etherscan_token_transaction_count",
                                         tx_count_data))
    /\ pc' = "total_supply"
    /\ UNCHANGED <<fetchVars, reports, coin_mapping, loader, batches, current_coin,
                   collected, cleaned, scored, tables, sleeps>>

CollectTotalSupply ==
    /\ pc = "total_supply"
    /\ \E r \in Fetched("fetch_etherscan_token_total_supply",
                        [contract_address |-> COIN_MAPPING[current_coin].contract_address,
                         coingecko_id |-> current_coin],
                        config, SymbolOf(current_coin)) :
          LET total_supply_data == r.result IN
          /\ errors' = AppendError(errors, "Etherscan TotalSupply", total_supply_data)
          /\ combined_data' =
                 IF "error" \in DOMAIN total_supply_data THEN combined_data
                 ELSE [combined_data EXCEPT
                          !.etherscan_total_supply_adjusted =
                              DGet(total_supply_data, "total_supply_adjusted")]
          /\ calls' = Append(calls, Call("fetch_etherscan_token_total_supply",
                                         total_supply_data))
    /\ pc' = "cryptopanic"
    /\ UNCHANGED <<fetchVars, reports, coin_mapping, loader, batches, current_coin,
                   collected, cleaned, scored, tables, sleeps>>

\* 2. on-chain metrics of what is no ERC20 token: the mock data
CollectMockOnChain ==
    /\ pc = "mock_on_chain"
    /\ LET mock_on_chain_data == fetch_on_chain_metrics(SymbolOf(current_coin)) IN
       /\ errors' = AppendError(errors, "MockOnChain", mock_on_chain_data)
       /\ combined_data' =
              IF "error" \in DOMAIN mock_on_chain_data THEN combined_data
              ELSE [combined_data EXCEPT
                       !.active_addresses =
                           IF @ = None THEN DGet(mock_on_chain_data, "active_addresses")
                           ELSE @,
                       !.transaction_volume_usd =
                           IF @ = None
                           THEN DGet(mock_on_chain_data, "transaction_volume_usd")
                           ELSE @]
       /\ calls' = Append(calls, Call("fetch_on_chain_metrics", mock_on_chain_data))
    /\ pc' = "cryptopanic"
    /\ UNCHANGED <<fetchVars, reports, coin_mapping, loader, batches, current_coin,
                   collected, cleaned, scored, tables, sleeps>>

\* lines 171-190 of collect_all_data_for_coin after the fetch: what
\* filtering and sentiment come to, given the posts fetched
SocialStep(raw_news, symbol) ==
    IF "error" \in DOMAIN raw_news
    THEN [exc |-> "", label |-> "CryptoPanic FetchNews", data |-> raw_news]
    ELSE LET filtered_news == filter_cryptopanic_posts(raw_news, symbol) IN
         IF "t" \in DOMAIN filtered_news
         THEN [exc |-> filtered_news.v, label |-> "", data |-> NoDict]
         ELSE IF "error" \in DOMAIN filtered_news
         THEN [exc |-> "", label |-> "CryptoPanic FilterNews", data |-> filtered_news]
         ELSE LET sentiment_data == calculate_aggregate_sentiment_from_posts(filtered_news) IN
              IF "t" \in DOMAIN sentiment_data
              THEN [exc |-> sentiment_data.v, label |-> "", data |-> NoDict]
              ELSE [exc |-> "", label |-> "CryptoPanic SentimentCalc",
                    data |-> sentiment_data]

\* 3. social sentiment from CryptoPanic; nothing here catches an exception
CollectSocial ==
    /\ pc = "cryptopanic"
    /\ \E r \in Fetched("fetch_cryptopanic_news_for_coin",
                        [coin_symbol |-> SymbolOf(current_coin)],
                        config, SymbolOf(current_coin)) :
          LET step == SocialStep(r.result, SymbolOf(current_coin)) IN
          /\ sleeps' = sleeps \cup SleepSites("fetch_cryptopanic_news_for_coin", r)
          /\ IF step.exc # ""
             THEN /\ pc' = "raised"
                  /\ UNCHANGED <<errors, combined_data>>
             ELSE /\ errors' = AppendError(errors, step.label, step.data)
                  /\ combined_data' =
                         IF "error" \in DOMAIN step.data THEN combined_data
                         ELSE [combined_data EXCEPT
                                  !.sentiment_score =
                                      DGet(step.data, "aggregated_sentiment_score"),
                                  !.mentions = DGet(step.data, "articles_with_votes")]
                  /\ pc' = "gdelt"
          /\ calls' = Append(calls, Call("fetch_cryptopanic_news_for_coin", step.data))
    /\ UNCHANGED <<fetchVars, reports, coin_mapping, loader, batches, current_coin,
                   collected, cleaned, scored, tables>>

\* 4. news sentiment from GDELT, and the return of collect_all_data_for_coin
CollectGdelt ==
    /\ pc = "gdelt"
    /\ \E r \in Fetched("fetch_gdelt_doc_api_news_sentiment",
                        [query |-> <<COIN_MAPPING[current_coin].name,
                                     Upper(SymbolOf(current_coin))>>],
                        config, SymbolOf(current_coin)) :
          LET gdelt_data == r.result
              ok == ~r.raised /\ gdelt_data # NoDict /\ "error" \notin DOMAIN gdelt_data
              gdelt_sentiment_score ==
                  IF ok THEN DGet(gdelt_data, "gdelt_average_tone") ELSE None
              gdelt_article_count ==
                  IF ok THEN DGet(gdelt_data, "gdelt_article_count") ELSE None
              combined == [combined_data EXCEPT
                              !.gdelt_sentiment_score = gdelt_sentiment_score,
                              !.gdelt_article_count = gdelt_article_count]
          IN  /\ collected' = IF errors # <<>>
                              THEN combined @@ [collection_errors |-> errors]
                              ELSE combined
              /\ combined_data' = combined
              /\ sleeps' = sleeps \cup SleepSites("fetch_gdelt_doc_api_news_sentiment", r)
              /\ calls' = Append(calls, Call("fetch_gdelt_doc_api_news_sentiment",
                                             gdelt_data))
    /\ pc' = "collected"
    /\ UNCHANGED <<fetchVars, reports, coin_mapping, loader, batches, current_coin, errors,
                   cleaned, scored, tables>>

\* process_and_save_coin_data gives the coin up: no price was collected
Abandon ==
    /\ pc = "collected"
    /\ "error" \in DOMAIN collected \/ DGet(collected, "price") = None
    /\ pc' = "for"
    /\ NoCoin
    /\ UNCHANGED <<fetchVars, reports, coin_mapping, loader, batches, tables, sleeps>>

\* the collected metrics are saved
SaveMetrics ==
    /\ pc = "collected"
    /\ ~("error" \in DOMAIN collected \/ DGet(collected, "price") = None)
    /\ \E read_ok \in BOOLEAN, write_ok \in BOOLEAN :
          LET db_coin_id == get_coin_id_by_symbol(coins_table, SymbolOf(current_coin), read_ok)
          IN  /\ DbOutcomes(db_failures, read_ok, write_ok, db_coin_id # None)
              /\ db_failures' = db_failures + (IF read_ok THEN 0 ELSE 1)
                                            + (IF write_ok THEN 0 ELSE 1)
              /\ metrics_table' =
                  IF db_coin_id = None THEN metrics_table
                  ELSE execute_write_query(metrics_table,
                           [coin_id |-> db_coin_id.v,
                            price |-> DGet(collected, "price"),
                            volume |-> DGet(collected, "volume"),
                            market_cap |-> DGet(collected, "market_cap"),
                            active_addresses |-> DGet(collected, "active_addresses"),
                            transaction_volume |-> DGet(collected, "transaction_volume_usd")],
                           write_ok)
    /\ pc' = "clean"
    /\ UNCHANGED <<fetchVars, reports, coin_mapping, loader, batches, perCoin,
                   coins_table, scores_table, score_writes, sleeps>>

\* cleaned_data = clean_coin_data(raw_data)
Clean ==
    /\ pc = "clean"
    /\ LET cleaned_data == clean_coin_data(collected) IN
       IF "t" \in DOMAIN cleaned_data
       THEN /\ pc' = "raised"
            /\ UNCHANGED cleaned
       ELSE /\ cleaned' = cleaned_data
            /\ pc' = "score"
    /\ UNCHANGED <<fetchVars, reports, coin_mapping, loader, batches, current_coin, combined_data,
                   errors, collected, scored, calls, tables, sleeps>>

\* score_data = calculate_coin_score(cleaned_data)
Score ==
    /\ pc = "score"
    /\ LET score_data == calculate_coin_score(cleaned) IN
       IF "t" \in DOMAIN score_data
       THEN /\ pc' = "raised"
            /\ UNCHANGED scored
       ELSE /\ scored' = score_data
            /\ pc' = "save_score"
    /\ UNCHANGED <<fetchVars, reports, coin_mapping, loader, batches, current_coin, combined_data,
                   errors, collected, cleaned, calls, tables, sleeps>>

\* the score is saved, and process_and_save_coin_data returns
SaveScore ==
    /\ pc = "save_score"
    /\ \E read_ok \in BOOLEAN, write_ok \in BOOLEAN :
          LET symbol == SymbolOf(current_coin)
              final_symbol_from_scorer == DGet(scored, "symbol")
              score_db_coin_id == get_coin_id_by_symbol(coins_table, symbol, read_ok)
              row == [coin_id |-> score_db_coin_id.v, timestamp |-> scored.score_calculation_timestamp_utc,
                      score |-> scored.score]
              looked_up == /\ Truthy(final_symbol_from_scorer)
                           /\ "score" \in DOMAIN scored
                           /\ "score_calculation_timestamp_utc" \in DOMAIN scored
                           /\ final_symbol_from_scorer = PyStr(symbol)
          IN  /\ DbOutcomes(db_failures, read_ok \/ ~looked_up, write_ok,
                            looked_up /\ score_db_coin_id # None)
              /\ ~looked_up => read_ok
              /\ db_failures' = db_failures + (IF read_ok THEN 0 ELSE 1)
                                            + (IF write_ok THEN 0 ELSE 1)
              /\ IF looked_up /\ score_db_coin_id # None
                 THEN /\ score_writes' = Append(score_writes, row)
                      /\ scores_table' = execute_write_query(scores_table, row, write_ok)
                 ELSE UNCHANGED <<score_writes, scores_table>>
    /\ pc' = "for"
    /\ NoCoin
    /\ UNCHANGED <<fetchVars, reports, coin_mapping, loader, batches,
                   coins_table, metrics_table, sleeps>>

\* ------------------------------------------------------------------------
\* src/processors/aggregator.py: the daily report, made from the tables the
\* run has written (day_date is the day of the run)
\* ------------------------------------------------------------------------
TOP_N_COINS_REPORT == 3

\* SELECT symbol FROM coins ORDER BY symbol, for the symbols of COIN_MAPPING
SymbolOrder == <<"BTC", "ETH", "FET", "NEAR", "RNDR", "SOL", "TAO">>
get_all_coin_symbols(table, read_ok) ==
    IF read_ok
    THEN SelectSeq(SymbolOrder,
                   LAMBDA symbol : \E i \in DOMAIN table : table[i].symbol = symbol)
    ELSE <<>>

\* the row SELECT score, sub_scores_json, timestamp ... ORDER BY timestamp
\* DESC LIMIT 1 returns: rows are appended in the order of their timestamps;
\* None when there is no row or the read failed
LatestScoreEntry(table, coin_id, read_ok) ==
    LET rows == {i \in DOMAIN table : PyInt(table[i].coin_id) = coin_id} IN
    IF read_ok /\ rows # {}
    THEN table[CHOOSE i \in rows : \A j \in rows : j <= i]
    ELSE None

\* get_daily_summary_for_coin; a column the INSERT of a row did not name is
\* NULL in that row
SubScores(sub_scores_json) ==
    IF sub_scores_json = None THEN <<>> ELSE sub_scores_json.v
get_daily_summary_for_coin(table, coin_id, read_ok) ==
    LET score_entry == LatestScoreEntry(table, coin_id, read_ok) IN
    IF score_entry = None
    THEN [coin_id |-> coin_id, average_score |-> None, sub_scores |-> <<>>,
          number_of_scores_considered |-> 0]
    ELSE [coin_id |-> coin_id, average_score |-> PyFloat(score_entry.score),
          sub_scores |-> SubScores(DGet(score_entry, "sub_scores_json")),
          number_of_scores_considered |-> 1]

\* the reads of generate_and_save_top_coins_report
ReadSites(table) ==
    {<<"symbols", "">>}
    \cup {<<site, table[i].symbol>> : site \in {"id", "summary"}, i \in DOMAIN table}

\* the for loop over all_symbols: the entries appended to
\* coin_data_for_discord, scores in hundredths (round(.., 2) keeps them)
RECURSIVE CoinDataForDiscord(_, _, _, _)
CoinDataForDiscord(all_symbols, coins, scores, failing) ==
    IF all_symbols = <<>> THEN <<>>
    ELSE LET symbol == Head(all_symbols)
             coin_id == get_coin_id_by_symbol(coins, symbol, <<"id", symbol>> \notin failing)
             summary == get_daily_summary_for_coin(scores, coin_id,
                                                   <<"summary", symbol>> \notin failing)
             rest == CoinDataForDiscord(Tail(all_symbols), coins, scores, failing)
         IN  IF Truthy(coin_id) /\ summary.average_score # None
             THEN <<[symbol |-> symbol,
                     average_score |-> summary.average_score.v,
                     sub_scores |-> summary.sub_scores]>> \o rest
             ELSE rest

\* the reads the call makes
ReadsMade(coins, failing) ==
    IF <<"symbols", "">> \in failing THEN {<<"symbols", "">>}
    ELSE {site \in ReadSites(coins) :
            site[1] = "summary" => <<"id", site[2]>> \notin failing}

\* sorted(.., key=lambda x: x["average_score"], reverse=True): a stable
\* sort, entries of equal score keep their order
RECURSIVE InsertDescending(_, _)
InsertDescending(entry, sorted) ==
    IF sorted = <<>> THEN <<entry>>
    ELSE IF Head(sorted).average_score >= entry.average_score
    THEN <<Head(sorted)>> \o InsertDescending(entry, Tail(sorted))
    ELSE <<entry>> \o sorted
RECURSIVE SortedByScore(_)
SortedByScore(entries) ==
    IF entries = <<>> THEN <<>>
    ELSE InsertDescending(entries[Len(entries)],
                          SortedByScore(SubSeq(entries, 1, Len(entries) - 1)))

\* top_n_list_for_db
TopNListForDb(sorted_db_summaries, top_n_for_db_summary) ==
    [i \in 1..(IF Len(sorted_db_summaries) < top_n_for_db_summary
               THEN Len(sorted_db_summaries) ELSE top_n_for_db_summary) |->
        [symbol |-> sorted_db_summaries[i].symbol,
         average_score |-> sorted_db_summaries[i].average_score]]

\* generate_and_save_top_coins_report(day_date), called when the run is over
Report ==
    /\ pc = "finished"
    /\ \E webhook_set \in BOOLEAN, failing \in SUBSET ReadSites(coins_table),
          write_ok \in BOOLEAN :
          LET all_symbols == get_all_coin_symbols(coins_table,
                                                  <<"symbols", "">> \notin failing)
              coin_data_for_discord ==
                  CoinDataForDiscord(all_symbols, coins_table, scores_table, failing)
              sorted_coin_data == SortedByScore(coin_data_for_discord)
              top_n_list_for_db == TopNListForDb(sorted_coin_data, TOP_N_COINS_REPORT)
              writes == coin_data_for_discord # <<>>
              failed == Cardinality(failing) + (IF write_ok THEN 0 ELSE 1)
          IN  /\ failing \subseteq ReadsMade(coins_table, failing)
              /\ ~writes => write_ok
              /\ db_failures + failed <= MaxDbFailures
              /\ db_failures' = db_failures + failed
              /\ summaries_table' =
                    IF writes
                    THEN execute_write_query(summaries_table,
                                             [report_date |-> "today",
                                              top_coins |-> top_n_list_for_db], write_ok)
                    ELSE summaries_table
              /\ discord_calls' =
                    IF webhook_set /\ all_symbols # <<>>
                    THEN Append(discord_calls, sorted_coin_data)
                    ELSE discord_calls
    /\ pc' = "reported"
    /\ UNCHANGED <<fetchVars, coin_mapping, loader, batches, perCoin,
                   coins_table, metrics_table, scores_table, score_writes, sleeps>>

Next ==
    \/ Pings
    \/ LoadCoin
    \/ LoadCoinsFailed
    \/ StartBatches
    \/ BeginCoin
    \/ BatchPause
    \/ Finish
    \/ CollectMarket
    \/ CollectActiveAddresses
    \/ CollectTransactionCount
    \/ CollectTotalSupply
    \/ CollectMockOnChain
    \/ CollectSocial
    \/ CollectGdelt
    \/ Abandon
    \/ SaveMetrics
    \/ Clean
    \/ Score
    \/ SaveScore
    \/ Report

Spec == Init /\ [][Next]_vars

\* ------------------------------------------------------------------------
\* SpecProcess: clean_coin_data and calculate_coin_score called on one record
\* ------------------------------------------------------------------------
\* largest number of fields of a raw record that differ from RawBase
MaxOverrides == 2

\* a raw record as collect_all_data_for_coin returns it for an ERC20 token
\* with `addresses` active addresses and as many transactions
RawBase(addresses) ==
    [coingecko_id |-> PyStr("render-token"),
     symbol |-> PyStr("RNDR"),
     price |-> PyFloat(30000),
     volume |-> PyFloat(50000),
     market_cap |-> PyFloat(90000),
     active_addresses |-> PyInt(addresses),
     transaction_volume_usd |-> PyFloat(50000),
     etherscan_active_addresses_proxy |-> PyInt(addresses),
     etherscan_transaction_count_proxy |-> PyInt(addresses),
     etherscan_total_supply_adjusted |-> PyFloat(50000000),
     mentions |-> PyInt(1),
     sentiment_score |-> PyFloat(5000),
     gdelt_sentiment_score |-> PyFloat(-25000),
     gdelt_article_count |-> PyInt(2)]

\* a token nobody uses, and one with 1.2 million addresses
RawBases == {RawBase(0), RawBase(1200000)}

\* the key is not in the dictionary
Absent == [t |-> "absent"]

\* what a key of a raw record can hold instead of its value in RawBase
RawValues(key) ==
    CASE key = "symbol" -> {Absent, None, PyStr("")}
      [] key = "volume" ->
             {Absent, None, PyFloat(-20000), PyFloat(-5000), NumStr(9), PyStr("n/a"),
              PyList(<<>>), Sci(12), Inf}
      [] key = "market_cap" -> {Absent, PyFloat(-5000), PyInt(3), Sci(12), Inf}
      [] key = "active_addresses" ->
             {Absent, None, PyInt(-1), PyInt(1200000), PyFloat(25000), NumStr(9),
              PyStr("n/a"), Inf}
      [] key = "etherscan_transaction_count_proxy" ->
             {Absent, PyInt(-1), PyInt(1200000), PyStr("n/a"), Inf}
      [] key = "sentiment_score" ->
             {Absent, None, PyFloat(-100000), PyFloat(30000), PyStr("n/a"), Inf}
      [] key = "gdelt_sentiment_score" ->
             {Absent, PyFloat(-150000), PyFloat(200000), PyStr("n/a"), Sci(12), Inf}
      [] key = "mentions" ->
             {Absent, PyInt(97), PyInt(98), PyInt(997), PyInt(998), PyInt(9997),
              PyInt(9998), PyStr("n/a"), Inf}
      [] key = "gdelt_article_count" ->
             {Absent, PyInt(1), PyInt(3), NumStr(9), PyStr("n/a")}
      [] OTHER -> {None, PyStr("n/a"), Inf}

RawKeys == FieldNames \cup {"symbol"}

\* the record `base` with the keys of `keys` holding what `values` gives them
Override(base, keys, values) ==
    [k \in {key \in DOMAIN base : key \notin keys \/ values[key] # Absent} |->
        IF k \in keys THEN values[k] ELSE base[k]]

RawRecords ==
    {<<>>}
    \cup {Override(base, kv[1], kv[2]) :
             base \in RawBases,
             kv \in
                 UNION {{<<ks, vs>> : vs \in {f \in [ks -> UNION {RawValues(k) : k \in ks}] :
                                                  \A k \in ks : f[k] \in RawValues(k)}} :
                           ks \in {s \in SUBSET RawKeys : Cardinality(s) <= MaxOverrides}}}

ProcessInit ==
    /\ config = [ETHERSCAN_API_KEY |-> EtherscanPlaceholder,
                 CRYPTO_PANIC_API_KEY |-> CryptoPanicPlaceholder]
    /\ FetchOff
    /\ coin_mapping = <<>>
    /\ pc = "clean"
    /\ loader = NoLoader
    /\ batch = 0
    /\ queue = <<>>
    /\ batch_2_ids = <<>>
    /\ current_coin = ""
    /\ combined_data = NoDict
    /\ errors = <<>>
    /\ collected \in RawRecords
    /\ cleaned = NoDict
    /\ scored = NoDict
    /\ coins_table = <<>>
    /\ metrics_table = <<>>
    /\ scores_table = <<>>
    /\ calls = <<>>
    /\ score_writes = <<>>
    /\ db_failures = 0
    /\ sleeps = {}
    /\ summaries_table = <<>>
    /\ discord_calls = <<>>

ProcessNext ==
    \/ Clean
    \/ Score

SpecProcess == ProcessInit /\ [][ProcessNext]_vars

\* ------------------------------------------------------------------------
\* SpecScore: calculate_coin_score called on a record that lacks keys
\* ------------------------------------------------------------------------
\* the keys calculate_coin_score reads with a default
ScorerKeys == WeightedMetrics \cup {"mentions", "gdelt_article_count", "symbol"}

\* cleaned records, and what is left of them without some of the keys
ScorerRecords ==
    {[k \in DOMAIN record \ dropped |-> record[k]] :
        record \in {clean_coin_data(base) : base \in RawBases},
        dropped \in SUBSET ScorerKeys}

ScoreInit ==
    /\ config = [ETHERSCAN_API_KEY |-> EtherscanPlaceholder,
                 CRYPTO_PANIC_API_KEY |-> CryptoPanicPlaceholder]
    /\ FetchOff
    /\ coin_mapping = <<>>
    /\ pc = "score"
    /\ loader = NoLoader
    /\ batch = 0
    /\ queue = <<>>
    /\ batch_2_ids = <<>>
    /\ current_coin = ""
    /\ combined_data = NoDict
    /\ errors = <<>>
    /\ collected = NoDict
    /\ cleaned \in ScorerRecords
    /\ scored = NoDict
    /\ coins_table = <<>>
    /\ metrics_table = <<>>
    /\ scores_table = <<>>
    /\ calls = <<>>
    /\ score_writes = <<>>
    /\ db_failures = 0
    /\ sleeps = {}
    /\ summaries_table = <<>>
    /\ discord_calls = <<>>

SpecScore == ScoreInit /\ [][Score]_vars

\* ------------------------------------------------------------------------
\* SpecSentiment: calculate_aggregate_sentiment_from_posts called on one
\* batch of filtered posts
\* ------------------------------------------------------------------------
\* largest number of posts in a batch
MaxPosts == 3

\* the posts of a batch: vote tallies as CryptoPanic sends them (the first
\* three are those of the self-test), a votes dictionary without the
\* "negative" key, a post without votes, a post whose votes are null, an
\* element that is no dictionary, and malformed tallies (a count below zero,
\* a count that is a string)
SentimentPosts ==
    {Post(PyStr("BTC"), PyList(<<>>), Votes(PyInt(tally[1]), PyInt(tally[2]))) :
        tally \in {<<10, 2>>, <<5, 5>>, <<1, 8>>, <<0, 0>>, <<2, 0>>, <<1, -2>>,
                   <<3, -1>>}}
    \cup {Post(PyStr("BTC"), PyList(<<>>), PyDict([positive |-> PyInt(1)])),
          Post(PyStr("BTC"), PyList(<<>>), None),
          PyDict([title |-> PyStr("BTC")]),
          PyStr("BTC"),
          Post(PyStr("BTC"), PyList(<<>>), Votes(PyStr("3"), PyInt(2)))}

PostBatches == UNION {[1..n -> SentimentPosts] : n \in 0..MaxPosts}

SentimentInit ==
    /\ config = [ETHERSCAN_API_KEY |-> EtherscanPlaceholder,
                 CRYPTO_PANIC_API_KEY |-> CryptoPanicPlaceholder]
    /\ client = "calculate_aggregate_sentiment_from_posts"
    /\ args \in {[coin_symbol |-> "BTC", filtered_results |-> PyList(posts)] :
                    posts \in PostBatches}
    /\ attempt = 0
    /\ fpc = "call"
    /\ pending = NoPending
    /\ events = <<>>
    /\ result = NoResult
    /\ PipelineOff

\* the call, up to its return or to the exception that leaves it
Aggregate ==
    /\ fpc = "call"
    /\ LET sentiment == calculate_aggregate_sentiment_from_posts(args) IN
       IF "t" \in DOMAIN sentiment
       THEN /\ fpc' = "raised"
            /\ UNCHANGED result
       ELSE /\ fpc' = "returned"
            /\ result' = sentiment
    /\ UNCHANGED <<config, client, args, attempt, pending, events, pipeVars>>

SpecSentiment == SentimentInit /\ [][Aggregate]_vars

\* ------------------------------------------------------------------------
\* SpecCall: process_and_save_coin_data called with identifiers of which
\* some are not keys of COIN_MAPPING, up to its first fetch
\* ------------------------------------------------------------------------
\* the identifiers of the calls: the first two are not in COIN_MAPPING
CalledIds == {"XYZCOIN", "dogecoin", "bitcoin", "render-token"}

\* rows that earlier calls have left in metrics and scores
EarlierMetrics ==
    {<<>>, <<[coin_id |-> 1, price |-> PyFloat(30000), volume |-> PyFloat(50000),
             market_cap |-> PyFloat(90000), active_addresses |-> PyInt(0),
             transaction_volume |-> PyFloat(50000)]>>}
EarlierScores == {<<>>, <<[coin_id |-> 1, timestamp |-> "earlier", score |-> 2617]>>}

CallInit ==
    /\ config = [ETHERSCAN_API_KEY |-> EtherscanPlaceholder,
                 CRYPTO_PANIC_API_KEY |-> CryptoPanicPlaceholder]
    /\ FetchOff
    /\ coin_mapping \in Mappings
    /\ pc = "for"
    /\ loader = NoLoader
    /\ batch = 1
    /\ queue \in UNION {[1..n -> CalledIds] : n \in 1..2}
    /\ batch_2_ids = <<>>
    /\ current_coin = ""
    /\ combined_data = NoDict
    /\ errors = <<>>
    /\ collected = NoDict
    /\ cleaned = NoDict
    /\ scored = NoDict
    /\ coins_table = LoadedRows(coin_mapping)
    /\ metrics_table \in EarlierMetrics
    /\ scores_table \in EarlierScores
    /\ calls = <<>>
    /\ score_writes = <<>>
    /\ db_failures = 0
    /\ sleeps = {}
    /\ summaries_table = <<>>
    /\ discord_calls = <<>>

SpecCall == CallInit /\ [][BeginCoin]_vars

\* ------------------------------------------------------------------------
\* SpecFilter: filter_cryptopanic_posts called on what
\* fetch_cryptopanic_news_for_coin returned, and
\* calculate_aggregate_sentiment_from_posts on what the filter returned
\* ------------------------------------------------------------------------
\* the posts of a fetched batch: with a title, a blank title or none, tagged
\* with the symbol first, second or not at all; a post without currencies,
\* an element that is no dictionary, and a post whose title is a number
FetchedPosts ==
    {Post(title, PyList(currencies), Votes(PyInt(2), PyInt(0))) :
        title \in {PyStr("rally"), PyStr(" "), None},
        currencies \in {<<Currency("BTC")>>, <<Currency("ETH"), Currency("BTC")>>,
                        <<Currency("ETH")>>}}
    \cup {Post(PyStr("rally"), None, Votes(PyInt(2), PyInt(0))),
          PyStr("rally"),
          Post(PyInt(7), PyList(<<Currency("BTC")>>), Votes(PyInt(2), PyInt(0)))}

\* what fetch_cryptopanic_news_for_coin returns: a batch for the symbol it
\* was called with, or a failure
FetchedBatches ==
    {[coin_symbol |-> coin_symbol, results |-> PyList(posts)] :
        coin_symbol \in {"BTC", "ETH"},
        posts \in UNION {[1..n -> FetchedPosts] : n \in 0..MaxPosts}}
    \cup {[coin_symbol |-> "BTC",
           error |-> <<"CryptoPanic API HTTP error", "429 Client Error">>],
          [coin_symbol |-> "BTC", error |-> <<"CryptoPanic API key not configured.">>]}

FilterInit ==
    /\ config = [ETHERSCAN_API_KEY |-> EtherscanPlaceholder,
                 CRYPTO_PANIC_API_KEY |-> CryptoPanicPlaceholder]
    /\ client = "filter_cryptopanic_posts"
    /\ args \in {[posts_data |-> posts_data,
                   coin_symbol_to_filter |-> coin_symbol_to_filter] :
                    posts_data \in FetchedBatches,
                    coin_symbol_to_filter \in {"BTC", "btc"}}
    /\ attempt = 0
    /\ fpc = "call"
    /\ pending = NoPending
    /\ events = <<>>
    /\ result = NoResult
    /\ PipelineOff

\* the call of filter_cryptopanic_posts
Filter ==
    /\ fpc = "call"
    /\ client = "filter_cryptopanic_posts"
    /\ LET filtered_news == filter_cryptopanic_posts(args.posts_data,
                                                     args.coin_symbol_to_filter) IN
       IF "t" \in DOMAIN filtered_news
       THEN /\ fpc' = "raised"
            /\ UNCHANGED result
       ELSE /\ fpc' = "filtered"
            /\ result' = filtered_news
    /\ UNCHANGED <<config, client, args, attempt, pending, events, pipeVars>>

\* the call of calculate_aggregate_sentiment_from_posts on its result
AggregateFiltered ==
    /\ fpc = "filtered"
    /\ LET sentiment == calculate_aggregate_sentiment_from_posts(result) IN
       IF "t" \in DOMAIN sentiment
       THEN /\ fpc' = "raised"
            /\ UNCHANGED result
       ELSE /\ fpc' = "returned"
            /\ result' = sentiment
    /\ UNCHANGED <<config, client, args, attempt, pending, events, pipeVars>>

FilterNext == Filter \/ AggregateFiltered

SpecFilter == FilterInit /\ [][FilterNext]_vars

\* ------------------------------------------------------------------------
\* Properties of one call of a retrying fetch function (SpecFetch)
\* ------------------------------------------------------------------------
RequestEvents == SelectSeq(events, LAMBDA ev : ev.e = "request")
SleepEvents == SelectSeq(events, LAMBDA ev : ev.e = "sleep")
TooManyRequests == HttpError(429)
Retrying == client \in RetryingClients
Failed == fpc = "returned" /\ "error" \in DOMAIN result

\* the request itself failed, or its body is not of the container type the
\* function reads (an array for market data, an object otherwise)
RequestFailed(resp) ==
    \/ resp.kind # "json"
    \/ resp.body.t # (IF client = "fetch_coingecko_market_data" THEN "list" ELSE "dict")

\* the body has the shape the upstream documents
WellShaped(body) ==
    CASE client = "fetch_coingecko_market_data" ->
             /\ body.t = "list"
             /\ body.v # <<>>
             /\ \A i \in DOMAIN body.v :
                   /\ body.v[i].t = "dict"
                   /\ {"current_price", "total_volume", "market_cap"} \subseteq DOMAIN body.v[i].v
      [] client = "fetch_coingecko_historical_data" ->
             body.t = "dict" /\ "prices" \in DOMAIN body.v
      [] OTHER ->
             /\ body.t = "dict"
             /\ "articles" \in DOMAIN body.v
             /\ body.v.articles.t = "list"
             /\ \A i \in DOMAIN body.v.articles.v :
                   LET article == body.v.articles.v[i] IN
                   /\ article.t = "dict"
                   /\ "tone" \in DOMAIN article.v
                   /\ article.v.tone.t = "csv"
                   /\ article.v.tone.v[1][1] = "num"

C2_AtMostFiveAttempts ==
    Retrying =>
        /\ Len(RequestEvents) <= 5
        /\ Len(SleepEvents) <= 4
        /\ \A i \in DOMAIN events :
              events[i].e = "sleep" =>
                  /\ i > 1
                  /\ events[i - 1].e = "request"
                  /\ IF i < Len(events) THEN events[i + 1].e = "request"
                     ELSE fpc = "request"

\* C2 witness: a call that used all five attempts, with four sleeps
C2_Witness ==
    /\ Retrying
    /\ fpc = "returned"
    /\ Len(RequestEvents) = 5
    /\ Len(SleepEvents) = 4

\* the number of leading 429s among the requests made
RECURSIVE LeadingRateLimits(_)
LeadingRateLimits(reqs) ==
    IF reqs = <<>> \/ Head(reqs).resp # TooManyRequests THEN 0
    ELSE 1 + LeadingRateLimits(Tail(reqs))

\* the result carries the payload of the body
PayloadOf(body) ==
    CASE client = "fetch_coingecko_market_data" ->
             /\ result.price = body.v[1].v.current_price
             /\ result.volume = body.v[1].v.total_volume
             /\ result.market_cap = body.v[1].v.market_cap
      [] client = "fetch_coingecko_historical_data" ->
             result.prices = body.v.prices
      [] OTHER ->
             /\ result.gdelt_article_count = PyInt(Len(body.v.articles.v))
             /\ result.gdelt_average_tone.t = "float"

\* C3: for k in 0..4, after k 429s the call is still going, and when the
\* next response is a well-shaped success the call returns its payload,
\* without "error", after exactly k + 1 requests
C3_SuccessAfterRateLimits ==
    Retrying =>
        LET reqs == RequestEvents
            k == LeadingRateLimits(reqs)
        IN  /\ (k = Len(reqs) /\ k <= 4) => fpc \in {"call", "request", "sleep"}
            /\ (/\ k <= 4
                /\ Len(reqs) > k
                /\ reqs[k + 1].resp.kind = "json"
                /\ WellShaped(reqs[k + 1].resp.body)) =>
                   /\ fpc = "returned"
                   /\ "error" \notin DOMAIN result
                   /\ Len(reqs) = k + 1
                   /\ PayloadOf(reqs[k + 1].resp.body)

\* C3 witness: four 429s, then a success on the fifth attempt
C3_Witness ==
    /\ Retrying
    /\ fpc = "returned"
    /\ Len(RequestEvents) = 5
    /\ LeadingRateLimits(RequestEvents) = 4
    /\ RequestEvents[5].resp.kind = "json"
    /\ WellShaped(RequestEvents[5].resp.body)
    /\ "error" \notin DOMAIN result

\* the failure says that the retries ran out under rate limiting
MarkedExhausted ==
    /\ Failed
    /\ result.error # <<>>
    /\ result.error[Len(result.error)] = MaxRetriesReached

\* C4: a call that met a 429 on all five attempts returns a failure marked
\* as retries exhausted, and no other failure carries the mark
C4_ExhaustionIsMarked ==
    Retrying =>
        /\ (Len(RequestEvents) = 5 /\ LeadingRateLimits(RequestEvents) = 5) =>
               MarkedExhausted
        /\ MarkedExhausted =>
               /\ Len(RequestEvents) = 5
               /\ LeadingRateLimits(RequestEvents) = 5

\* C4 witness: the fifth 429 has ended the call
C4_Witness ==
    /\ Retrying
    /\ LeadingRateLimits(RequestEvents) = 5
    /\ MarkedExhausted

\* the n-th sleep of the call, the one before attempt n, lies in
\* [base_delay * 2^e, base_delay * 2^e + 1]
SleepWithin(n, e) ==
    LET low == Seconds(BaseDelay(client) * Pow2(e)) IN
    /\ SleepEvents[n].delay >= low
    /\ SleepEvents[n].delay <= low + Seconds(1)

\* C5 (as amended): the delay slept before attempt n (n = 1..4, attempts
\* counted from zero) is base_delay * 2^(n-1) plus a jitter in [0, 1]: the
\* exponent is the index of the attempt that was rate limited
C5_BackoffOfFailedAttempt ==
    Retrying => \A n \in DOMAIN SleepEvents : SleepWithin(n, n - 1)

\* C5 witness: the fourth sleep of a call has been slept
C5_Witness ==
    /\ Retrying
    /\ Len(SleepEvents) = 4
    /\ SleepWithin(4, 3)

\* C5 as stated: the delay before attempt n is base_delay * 2^n plus a
\* jitter in [0, 1]
C5_BackoffOfNextAttempt ==
    Retrying => \A n \in DOMAIN SleepEvents : SleepWithin(n, n)

\* what a fetch function may return: a dictionary that either has no
\* "error" key or has one that holds a cause
FetchOutcome(r) ==
    /\ r # NoResult
    /\ "error" \in DOMAIN r => r.error # <<>>

\* C6 as stated: no call of a fetch function raises, and every call comes
\* to return a success or a failure with its cause
C6_FetchTerminates ==
    /\ [](fpc # "raised")
    /\ <>(fpc = "returned" /\ FetchOutcome(result))

\* ------------------------------------------------------------------------
\* Properties of a run of the pipeline (Spec)
\* ------------------------------------------------------------------------
\* collect_all_data_for_coin was left by an exception, or has returned
CollectionRaised == pc = "raised" /\ calls # <<>> /\ collected = NoDict
CollectionReturned == pc = "collected"

CallsOf(fns) == Cardinality({i \in DOMAIN calls : calls[i].fn \in fns})

\* the functions behind the on-chain source of the current coin
OnChainFunctions ==
    IF "contract_address" \in DOMAIN COIN_MAPPING[current_coin] /\ current_coin # "ethereum"
    THEN {"fetch_etherscan_token_active_addresses",
          "fetch_etherscan_token_transaction_count",
          "fetch_etherscan_token_total_supply"}
    ELSE {"fetch_on_chain_metrics"}

\* C7 as stated: whichever sources fail, collect_all_data_for_coin ends with
\* market data, on-chain, social posts and news each requested exactly once,
\* and with the social fields populated when the social source did not fail
C7_EverySourceRequestedOnce ==
    (CollectionReturned \/ CollectionRaised) =>
        /\ CallsOf({"fetch_coingecko_market_data"}) = 1
        /\ \A fn \in OnChainFunctions : CallsOf({fn}) = 1
        /\ CallsOf({"fetch_cryptopanic_news_for_coin"}) = 1
        /\ CallsOf({"fetch_gdelt_doc_api_news_sentiment"}) = 1
        /\ \A i \in DOMAIN calls :
              (calls[i].fn = "fetch_cryptopanic_news_for_coin" /\ ~calls[i].failed) =>
                  /\ combined_data.sentiment_score # None
                  /\ combined_data.mentions # None

\* the asset has had a score handed to execute_write_query
ScoreHandedOver(id) ==
    \E j \in DOMAIN score_writes :
        PyInt(score_writes[j].coin_id) = get_coin_id_by_symbol(coins_table, SymbolOf(id), TRUE)

\* C8 as stated: a run in which the database never failed comes to its end
\* with a score computed and handed to persistence for every asset of the
\* mapping, whatever fetches failed
C8_EveryAssetScored ==
    (pc = "finished" /\ db_failures = 0) =>
        \A i \in DOMAIN coin_mapping : ScoreHandedOver(coin_mapping[i])

\* the labels collect_all_data_for_coin files the failures of a source under
ErrorLabels(fn) ==
    CASE fn = "fetch_coingecko_market_data" -> {"CoinGecko MarketData"}
      [] fn = "fetch_etherscan_token_active_addresses" -> {"Etherscan ActiveAddresses"}
      [] fn = "fetch_etherscan_token_transaction_count" -> {"Etherscan TxCount"}
      [] fn = "fetch_etherscan_token_total_supply" -> {"Etherscan TotalSupply"}
      [] fn = "fetch_on_chain_metrics" -> {"MockOnChain"}
      [] fn = "fetch_cryptopanic_news_for_coin" ->
             {"CryptoPanic FetchNews", "CryptoPanic FilterNews", "CryptoPanic SentimentCalc"}
      [] OTHER -> {"GDELT"}

CollectionErrors(record) == DGetOr(record, "collection_errors", <<>>)

\* C9 as stated: the raw record lists every source whose fetch failed, the
\* list is absent only when no source failed, and the cleaned record carries
\* the same list
C9_EveryFailureListed ==
    /\ CollectionReturned =>
          /\ \A i \in DOMAIN calls :
                calls[i].failed =>
                    \E j \in DOMAIN CollectionErrors(collected) :
                        CollectionErrors(collected)[j][1] \in ErrorLabels(calls[i].fn)
          /\ "collection_errors" \notin DOMAIN collected =>
                \A i \in DOMAIN calls : ~calls[i].failed
    /\ pc \in {"score", "save_score"} =>
          /\ "collection_errors" \in DOMAIN cleaned <=> "collection_errors" \in DOMAIN collected
          /\ CollectionErrors(cleaned) = CollectionErrors(collected)

\* C10 as stated: whatever the payloads are, no exception leaves
\* filter_cryptopanic_posts, calculate_aggregate_sentiment_from_posts or
\* collect_all_data_for_coin: a malformed payload shows as a failure or as
\* an absent field of its source
C10_MalformedPayloadNeverRaises == ~CollectionRaised

\* C11 as stated: a failure of the database or of the configuration of one
\* asset is logged and skipped, so a run over a mapping that is not empty is
\* never given up before its batches are processed
C11_BatchNeverAborted == ~(pc = "aborted" /\ coin_mapping # <<>>)

\* ------------------------------------------------------------------------
\* Properties of the processors called on one record (SpecProcess)
\* ------------------------------------------------------------------------
\* clean_coin_data, calculate_coin_score was left by an exception
CleanRaised == pc = "raised" /\ cleaned = NoDict
ScoreRaised == pc = "raised" /\ cleaned # NoDict
Cleaned == pc \in {"score", "save_score"} \/ ScoreRaised
Scored == pc = "save_score"

\* the types of the values float(..) and int(..) return
TypesOf(type_constructor) ==
    IF type_constructor = "float" THEN {"float", "quot", "sci", "inf"} ELSE {"int"}

\* C12 as stated: for every raw record clean_coin_data returns a record in
\* which each of the 12 metric fields holds a value of its declared type,
\* the documented default when the raw value was absent, None or not
\* convertible
C12_CleanedFieldsTyped ==
    /\ ~CleanRaised
    /\ Cleaned =>
          \A i \in DOMAIN field_definitions :
              LET name == field_definitions[i][1]
                  type == field_definitions[i][2]
                  raw_value == DGet(collected, name)
              IN  /\ name \in DOMAIN cleaned
                  /\ cleaned[name].t \in TypesOf(type)
                  /\ raw_value.t \in {"none", "str", "list"} =>
                        cleaned[name] = DefaultValue(type)

\* C13 as stated: calculate_coin_score raises for no record that
\* clean_coin_data returns, negative and zero values included
C13_ScorerNeverRaises == ~ScoreRaised

\* the sum of the exact contributions of a result, in units of 10^-8
ExactSum(score_data) == SumContributions(score_data.contributing_metrics, 1)
Infinite(score_data) ==
    \E m \in WeightedMetrics : score_data.contributing_metrics[m].infinite

TotalMentions == cleaned.mentions.v + cleaned.gdelt_article_count.v

\* C15: the mention multiplier (in tenths) is 0.8 below 100 mentions, 1.0
\* from 100 to 999, 1.2 from 1000 to 9999 and 1.5 from 10000 on
C15_MultiplierBuckets ==
    Scored =>
        LET m == scored.mention_multiplier_applied_to_sentiment IN
        /\ TotalMentions <= 99 => m = 8
        /\ (TotalMentions >= 100 /\ TotalMentions <= 999) => m = 10
        /\ (TotalMentions >= 1000 /\ TotalMentions <= 9999) => m = 12
        /\ TotalMentions >= 10000 => m = 15

\* C15 witness: exactly 1000 mentions are in the bucket of 1.2
C15_Witness ==
    /\ Scored
    /\ TotalMentions = 1000
    /\ scored.mention_multiplier_applied_to_sentiment = 12

\* the record with 0 under every key calculate_coin_score reads and the
\* record lacks
Filled(record) ==
    [k \in DOMAIN record \cup WeightedMetrics \cup {"mentions", "gdelt_article_count"} |->
        IF k \in DOMAIN record THEN record[k] ELSE PyInt(0)]

RECURSIVE ReportedSum(_, _)
ReportedSum(score_data, i) ==
    IF i > Len(METRIC_WEIGHTS) THEN 0
    ELSE score_data.contributing_metrics[METRIC_WEIGHTS[i][1]].contribution.v
         + ReportedSum(score_data, i + 1)

\* clamp(raw_weighted_score * scaling_factor_applied, 0, 100) of the values
\* a result reports, in units of 10^-4
ReportedProduct(score_data) ==
    LET product == score_data.scaling_factor_applied * score_data.raw_weighted_score.v
    IN  IF product < 0 THEN 0 ELSE IF product > 1000000 THEN 1000000 ELSE product

Distance(a, b) == IF a >= b THEN a - b ELSE b - a

\* the keys of the entry of a metric
EntryKeys(m) ==
    IF m \in {"sentiment_score", "gdelt_sentiment_score"}
    THEN {"original_value", "transformed_value", "base_weight",
          "mention_multiplier_applied", "effective_weight", "contribution"}
    ELSE {"original_value", "transformed_value", "weight", "contribution"}

\* C17 (as amended): a result lists every weighted metric with its original
\* value, transformed value, weight and contribution; the contributions it
\* reports add up to the raw_weighted_score it reports within 0.0004, and
\* that sum times the scaling factor, clamped, is within 0.0054 of the score
C17_AuditUpToRounding ==
    (Scored /\ ~Infinite(scored)) =>
        /\ DOMAIN scored.contributing_metrics = WeightedMetrics
        /\ \A m \in WeightedMetrics :
              EntryKeys(m) \subseteq DOMAIN scored.contributing_metrics[m]
        /\ Distance(ReportedSum(scored, 1), scored.raw_weighted_score.v) <= 3
        /\ Distance(ReportedProduct(scored), 100 * scored.score) <= 53

\* C17 witness: a result whose reported contributions do not add up to the
\* reported sum
C17_Witness ==
    /\ Scored
    /\ ~Infinite(scored)
    /\ ReportedSum(scored, 1) # scored.raw_weighted_score.v

\* C17 as stated: the reported contributions add up to the reported
\* raw_weighted_score, and that sum times the scaling factor, clamped, is
\* the reported score
C17_AuditExact ==
    (Scored /\ ~Infinite(scored)) =>
        /\ ReportedSum(scored, 1) = scored.raw_weighted_score.v
        /\ ReportedProduct(scored) = 100 * scored.score

\* C20 as stated: the cleaned record and the result of the scorer have a
\* symbol that is not null, "UNKNOWN" when the raw record provides none
C20_SymbolAlwaysPresent ==
    /\ Cleaned =>
          /\ "symbol" \in DOMAIN cleaned
          /\ cleaned.symbol.t = "str"
          /\ DGet(collected, "symbol") = None => cleaned.symbol = PyStr("UNKNOWN")
    /\ Scored =>
          /\ "symbol" \in DOMAIN scored
          /\ scored.symbol.t = "str"

\* ------------------------------------------------------------------------
\* Properties of the sentiment aggregation (SpecSentiment)
\* ------------------------------------------------------------------------
Batch == args.filtered_results.v

\* a post "has vote signal": it has a votes dictionary in which the positive
\* or the negative count (0 when the key is missing) is above zero
VoteSignal(post) ==
    /\ post.t = "dict"
    /\ Get(post, "votes").t = "dict"
    /\ \/ GetOr(Get(post, "votes"), "positive", PyInt(0)).v > 0
       \/ GetOr(Get(post, "votes"), "negative", PyInt(0)).v > 0

Voted == SelectSeq(Batch, VoteSignal)

Tally(post, key) == GetOr(Get(post, "votes"), key, PyInt(0)).v
Denominator(post) == Tally(post, "positive") + Tally(post, "negative") + 1

\* the product of the denominators of posts i.. of a batch
RECURSIVE CommonDenominator(_, _)
CommonDenominator(posts, i) ==
    IF i > Len(posts) THEN 1
    ELSE Denominator(posts[i]) * CommonDenominator(posts, i + 1)

\* the sum of (P - N) / (P + N + 1) over posts i.. of a batch, as a
\* numerator over CommonDenominator(posts, 1)
RECURSIVE ScoreNumerators(_, _)
ScoreNumerators(posts, i) ==
    IF i > Len(posts) THEN 0
    ELSE (Tally(posts[i], "positive") - Tally(posts[i], "negative"))
            * (CommonDenominator(posts, 1) \div Denominator(posts[i]))
         + ScoreNumerators(posts, i + 1)

\* the aggregate, in units of 10^-4, is the mean of the scores of `posts`
\* to the fourth decimal place
IsMeanOf(aggregate, posts) ==
    LET share == CommonDenominator(posts, 1) * Len(posts) IN
    Distance(aggregate * share, ScoreNumerators(posts, 1) * FourPlaces)
        <= (share + 1) \div 2

\* C18: when calculate_aggregate_sentiment_from_posts returns, its aggregate
\* is the mean (reported to four decimal places) of (P - N) / (P + N + 1)
\* over exactly the posts with vote signal; articles_with_votes is their
\* number, articles_processed_for_sentiment is the number of input posts,
\* posts without votes included; with no post with vote signal (the empty
\* batch included) the aggregate is 0.0; the result has no "error" key.
C18_MeanOverVotedPosts ==
    fpc = "returned" /\ client = "calculate_aggregate_sentiment_from_posts" =>
        /\ "error" \notin DOMAIN result
        /\ result.articles_processed_for_sentiment = PyInt(Len(Batch))
        /\ result.articles_with_votes = PyInt(Len(Voted))
        /\ Len(Voted) <= Len(Batch)
        /\ result.aggregated_sentiment_score.t = "float"
        /\ IF Voted = <<>>
           THEN result.aggregated_sentiment_score = PyFloat(0)
           ELSE IsMeanOf(result.aggregated_sentiment_score.v, Voted)

\* a batch of three posts, one of them without votes, has been averaged
\* over the two others
C18_Witness ==
    /\ fpc = "returned" /\ client = "calculate_aggregate_sentiment_from_posts"
    /\ Len(Batch) = 3
    /\ Len(Voted) = 2
    /\ result.articles_with_votes = PyInt(2)
    /\ result.aggregated_sentiment_score.v # 0

\* ------------------------------------------------------------------------
\* Properties of the daily report (Spec)
\* ------------------------------------------------------------------------
\* the symbols of the coins a score row was saved for in the run
ScoredSymbols == {coins_table[scores_table[i].coin_id].symbol : i \in DOMAIN scores_table}

\* C19: the list handed to send_to_discord has exactly one entry for every
\* coin scored in the run and no other, in the order of the scores from
\* the highest to the lowest, and each entry has the symbol, the score and,
\* as sub_scores, the scorer's attribution: an entry for each weighted
\* metric.
C19_RankedListWithAttribution ==
    pc = "reported" /\ discord_calls # <<>> /\ db_failures = 0 =>
        LET all_coins_data == discord_calls[1] IN
        /\ \A symbol \in ScoredSymbols :
              Cardinality({i \in DOMAIN all_coins_data :
                             all_coins_data[i].symbol = symbol}) = 1
        /\ \A i \in DOMAIN all_coins_data : all_coins_data[i].symbol \in ScoredSymbols
        /\ \A i, j \in DOMAIN all_coins_data :
              i < j => all_coins_data[i].average_score >= all_coins_data[j].average_score
        /\ \A i \in DOMAIN all_coins_data :
              DOMAIN all_coins_data[i].sub_scores = WeightedMetrics

\* what holds of the list: the coins, their order and their scores
C19_RankedList ==
    pc = "reported" /\ discord_calls # <<>> /\ db_failures = 0 =>
        LET all_coins_data == discord_calls[1] IN
        /\ \A symbol \in ScoredSymbols :
              Cardinality({i \in DOMAIN all_coins_data :
                             all_coins_data[i].symbol = symbol}) = 1
        /\ \A i \in DOMAIN all_coins_data : all_coins_data[i].symbol \in ScoredSymbols
        /\ \A i, j \in DOMAIN all_coins_data :
              i < j => all_coins_data[i].average_score >= all_coins_data[j].average_score

\* two coins with different scores have been reported
C19_TwoRanked ==
    /\ pc = "reported" /\ Len(discord_calls) = 1 /\ db_failures = 0
    /\ Len(discord_calls[1]) = 2
    /\ discord_calls[1][1].average_score > discord_calls[1][2].average_score

\* ------------------------------------------------------------------------
\* Properties of the order of a batch run (Spec)
\* ------------------------------------------------------------------------
\* the statements of process_and_save_coin_data and of
\* collect_all_data_for_coin
CoinSteps == {"market", "active_addresses", "transaction_count", "total_supply",
              "mock_on_chain", "cryptopanic", "gdelt", "collected", "clean",
              "score", "save_score"}

\* no asset is being processed: the locals of process_and_save_coin_data
\* do not exist
NoAssetInProgress ==
    /\ current_coin = ""
    /\ calls = <<>>
    /\ collected = NoDict
    /\ cleaned = NoDict
    /\ scored = NoDict

\* C21: assets are processed one after another.  An asset begins only when
\* none is in progress; the asset in progress ends only by its score being
\* saved or by its being abandoned after collection; and every step in
\* between is a step of the asset that began.
C21_OneAssetAtATime ==
    [][/\ (current_coin' # current_coin /\ current_coin' # "") =>
             pc = "for" /\ NoAssetInProgress
       /\ (current_coin # "" /\ current_coin' # current_coin) =>
             current_coin' = "" /\ pc' = "for" /\ pc \in {"save_score", "collected"}
       /\ pc' \in CoinSteps =>
             current_coin' # "" /\ (pc \in CoinSteps => current_coin' = current_coin)
      ]_vars

\* the second asset of the mapping is being cleaned after the score of the
\* first has been saved
C21_Witness ==
    /\ pc = "clean"
    /\ Len(coin_mapping) = 2
    /\ current_coin = coin_mapping[2]
    /\ Len(score_writes) = 1

\* ------------------------------------------------------------------------
\* Properties of a fetch call of any upstream (SpecFetch)
\* ------------------------------------------------------------------------
\* C22: every fetch function retries a rate-limited request.  After a 429
\* on the first attempt the call has not returned: it sleeps or makes a
\* second request, so that a valid response to it can make the call a
\* success; no call is a failure after a single request answered by 429.
C22_EveryCallRetriesRateLimit ==
    (/\ Len(RequestEvents) = 1
     /\ RequestEvents[1].resp = TooManyRequests) =>
        /\ fpc \in {"request", "sleep"}
        /\ ~Failed

\* ------------------------------------------------------------------------
\* Properties of the sleeps of a batch run (Spec)
\* ------------------------------------------------------------------------
\* C23 (as amended): the run sleeps at four places only.  A step adds a
\* place to those where the run has slept only as follows: the retry
\* backoff in the CoinGecko and GDELT fetches, the pause after a CryptoPanic
\* response in the news fetch and in the initial ping, and the pause between
\* the two batches, taken once, when the first batch is done and the second
\* is not empty.  The Etherscan fetches, the mock on-chain step, the saving,
\* cleaning and scoring steps and the start of an asset do not sleep.
C23_SleepsOnlyWhereTheCodeSleeps ==
    [][\A site \in sleeps' \ sleeps :
          CASE site = "retry_backoff" -> pc \in {"market", "gdelt"}
            [] site = "cryptopanic_pause" -> pc = "cryptopanic"
            [] site = "ping_cryptopanic" -> pc = "ping"
            [] site = "batch_pause" ->
                   /\ pc = "for" /\ pc' = "for"
                   /\ queue = <<>> /\ queue' = batch_2_ids /\ queue' # <<>>
                   /\ batch = 1 /\ batch' = 2
                   /\ NoAssetInProgress
            [] OTHER -> FALSE
      ]_vars

\* a finished run of two assets that has slept in a retry backoff, after a
\* CryptoPanic response and between the batches
C23_Witness ==
    /\ pc = "finished"
    /\ Len(coin_mapping) = 2
    /\ {"retry_backoff", "cryptopanic_pause", "batch_pause"} \subseteq sleeps

\* C23 as stated: the run sleeps in retry backoffs only
C23_OnlyBackoffSleeps == sleeps \subseteq {"retry_backoff"}

\* ------------------------------------------------------------------------
\* Further properties of cleaning and scoring (SpecProcess)
\* ------------------------------------------------------------------------
\* the metrics transform_value takes the logarithm of
MagnitudeMetrics == {"volume", "market_cap", "active_addresses",
                     "etherscan_transaction_count_proxy"}

\* C24: in every record clean_coin_data returns, volume, market_cap,
\* active_addresses and etherscan_transaction_count_proxy are 0 or more,
\* whatever the raw values were.
C24_MagnitudesNonNegative ==
    Cleaned =>
        \A metric \in MagnitudeMetrics :
            IsNum(cleaned[metric]) => cleaned[metric].v >= 0

\* the metrics rescaled to [0, 1]
SentimentMetrics == {"sentiment_score", "gdelt_sentiment_score"}

\* other values of <<mentions, gdelt_article_count>>, one in each bucket of
\* the multiplier but that of 1.0
MentionCounts == {<<0, 0>>, <<5000, 0>>, <<20000, 3>>}

\* the cleaned record with other mention counts
WithMentions(counts) ==
    [cleaned EXCEPT !.mentions = PyInt(counts[1]),
                    !.gdelt_article_count = PyInt(counts[2])]

\* C25: the mention multiplier bears on the two sentiment metrics only.
\* The entry of contributing_metrics of each magnitude metric is the same
\* for the record with any other mention counts, and its contribution is
\* weight * transform(value); the contribution of each sentiment metric is
\* weight * multiplier * transform(value), and it is reported as such.
\* (Contributions in units of 10^-8, weights in hundredths, the multiplier
\* in tenths, transformed values in units of 10^-6.)
C25_MultiplierOnSentimentOnly ==
    Scored =>
        LET entries == scored.contributing_metrics
            multiplier == scored.mention_multiplier_applied_to_sentiment
        IN  /\ \A metric \in MagnitudeMetrics :
                  /\ \A counts \in MentionCounts :
                        calculate_coin_score(WithMentions(counts))
                            .contributing_metrics[metric] = entries[metric]
                  /\ "mention_multiplier_applied" \notin DOMAIN entries[metric]
                  /\ ~entries[metric].infinite =>
                        entries[metric].exact =
                            entries[metric].weight
                                * transform_value(metric, cleaned[metric]).v
            /\ \A metric \in SentimentMetrics :
                  /\ entries[metric].mention_multiplier_applied = multiplier
                  /\ ~entries[metric].infinite =>
                        10 * entries[metric].exact =
                            entries[metric].base_weight * multiplier
                                * transform_value(metric, cleaned[metric]).v

\* C25 witness: a record scored with the multiplier 1.2, with a sentiment
\* and a volume that contribute
C25_Witness ==
    /\ Scored
    /\ scored.mention_multiplier_applied_to_sentiment = 12
    /\ scored.contributing_metrics["sentiment_score"].exact > 0
    /\ scored.contributing_metrics["volume"].exact > 0
    /\ scored.contributing_metrics["gdelt_sentiment_score"].exact > 0

\* ------------------------------------------------------------------------
\* Properties of the filter of posts (SpecFilter)
\* ------------------------------------------------------------------------
Filtering == client = "filter_cryptopanic_posts"

\* the post has a title that is not blank, and a currencies list with an
\* entry whose code is the target symbol in upper case
Relevant(post) ==
    /\ post.t = "dict"
    /\ Get(post, "title").t = "str"
    /\ Get(post, "title").v \notin {"", " "}
    /\ Get(post, "currencies").t = "list"
    /\ \E i \in DOMAIN Get(post, "currencies").v :
          LET currency_obj == Get(post, "currencies").v[i] IN
          /\ currency_obj.t = "dict"
          /\ "code" \in DOMAIN currency_obj.v
          /\ currency_obj.v.code = PyStr("BTC")

\* C26: for a fetched batch of the target symbol, filtered_results is the
\* sub-list, in the order of the input, of exactly the posts with a title
\* that is not blank and a currencies entry whose code is the upper-cased
\* target symbol; an input with "error" is returned unchanged by
\* filter_cryptopanic_posts and by calculate_aggregate_sentiment_from_posts.
C26_FilterKeepsRelevantPosts ==
    Filtering =>
        /\ (/\ fpc = "filtered"
            /\ "error" \notin DOMAIN args.posts_data
            /\ args.posts_data.coin_symbol = "BTC") =>
               /\ "error" \notin DOMAIN result
               /\ result.filtered_results =
                     PyList(SelectSeq(args.posts_data.results.v, Relevant))
        /\ (/\ fpc \in {"filtered", "returned"}
            /\ "error" \in DOMAIN args.posts_data) =>
               result = args.posts_data

\* C26 witness: of three posts the filter has kept the first and the
\* third, the target symbol being given in lower case
C26_Witness ==
    /\ Filtering
    /\ fpc = "filtered"
    /\ args.coin_symbol_to_filter = "btc"
    /\ "error" \notin DOMAIN args.posts_data
    /\ Len(args.posts_data.results.v) = 3
    /\ "filtered_results" \in DOMAIN result
    /\ result.filtered_results.v =
          <<args.posts_data.results.v[1], args.posts_data.results.v[3]>>
    /\ args.posts_data.results.v[1] # args.posts_data.results.v[3]

\* ------------------------------------------------------------------------
\* The range of the sentiment (SpecSentiment)
\* ------------------------------------------------------------------------
\* C27: the score (P - N) / (P + N + 1) of every post with vote signal is
\* strictly between -1 and 1, and so is the aggregated_sentiment_score
\* returned for the batch (in units of 10^-4).
C27_SentimentStrictlyWithinOne ==
    fpc = "returned" /\ client = "calculate_aggregate_sentiment_from_posts" =>
        /\ \A i \in DOMAIN Voted :
              LET difference == Tally(Voted[i], "positive") - Tally(Voted[i], "negative")
              IN  /\ Denominator(Voted[i]) > 0
                  /\ difference < Denominator(Voted[i])
                  /\ 0 - difference < Denominator(Voted[i])
        /\ result.aggregated_sentiment_score.v > 0 - FourPlaces
        /\ result.aggregated_sentiment_score.v < FourPlaces

\* ------------------------------------------------------------------------
\* Properties of a call with an unknown identifier (SpecCall)
\* ------------------------------------------------------------------------
\* C28: process_and_save_coin_data called with an identifier that is not a
\* key of COIN_MAPPING returns at once: no fetch is made, no dictionary is
\* built, and the metrics and scores tables (and the other tables) are as
\* they were.
C28_UnknownCoinLeavesNoTrace ==
    [][(pc = "for" /\ queue # <<>> /\ Head(queue) \notin DOMAIN COIN_MAPPING) =>
          /\ pc' = "for"
          /\ calls' = calls
          /\ combined_data' = combined_data
          /\ collected' = collected
          /\ metrics_table' = metrics_table
          /\ scores_table' = scores_table
          /\ score_writes' = score_writes
          /\ coins_table' = coins_table
          /\ db_failures' = db_failures
          /\ sleeps' = sleeps
      ]_vars

\* C28 witness: the call for "XYZCOIN" has returned, and the rows of
\* metrics and scores are those there were
C28_Witness ==
    /\ current_coin = "XYZCOIN"
    /\ pc = "for"
    /\ calls = <<>>
    /\ combined_data = NoDict
    /\ Len(metrics_table) = 1
    /\ Len(scores_table) = 1
    /\ score_writes = <<>>

\* ------------------------------------------------------------------------
\* Properties of load_coins_from_mapping (Spec)
\* ------------------------------------------------------------------------
\* the rows of coins with a symbol
RowsOf(symbol) == {i \in DOMAIN coins_table : coins_table[i].symbol = symbol}

\* load_coins_from_mapping is at its return statement
LoadReturns ==
    pc = "load_coins" /\ coin_mapping # <<>> /\ loader.i = Len(coin_mapping)

\* C29: loading coins from the mapping is idempotent. Whatever calls came
\* before, no mapped symbol ever has two rows in coins; a call that returns
\* True leaves exactly one row for every mapped symbol; and a call at whose
\* end every mapped coin has its row (it existed or was inserted) returns
\* True.
C29_LoadIsIdempotent ==
    /\ \A i \in DOMAIN coin_mapping :
           Cardinality(RowsOf(SymbolOf(coin_mapping[i]))) <= 1
    /\ LoadReturns =>
           /\ loader.failed_count = 0 =>
                  \A i \in DOMAIN coin_mapping :
                      Cardinality(RowsOf(SymbolOf(coin_mapping[i]))) = 1
           /\ (\A i \in DOMAIN coin_mapping : RowsOf(SymbolOf(coin_mapping[i])) # {})
                  => loader.failed_count = 0

\* ------------------------------------------------------------------------
\* Properties of the two batches of a run (Spec)
\* ------------------------------------------------------------------------
\* the ids the two for loops have yet to hand to process_and_save_coin_data
Pending == IF batch = 1 THEN queue \o batch_2_ids ELSE queue

\* the number of ids handed to process_and_save_coin_data so far
Invoked == Len(coin_mapping) - Len(Pending)

\* ceil(n / 2), not computed as main.py does
HalfRoundedUp(n) == CHOOSE k \in 0..n : 2 * k >= n /\ 2 * k <= n + 1

\* the run is past the split into batch_1_ids and batch_2_ids
Split == batch \in {1, 2}

\* the run is over, by return or by an exception
RunOver == pc \in {"finished", "reported", "raised"}

\* what the split and the two loops keep true: the groups are the first
\* ceil(n/2) ids of the mapping and the rest, the ids are handed over in
\* mapping order, none twice, the first group before the second, and no
\* coin has two score rows
BatchesInOrder ==
    Split =>
      LET n == Len(coin_mapping) IN
      /\ batch_2_ids = SubSeq(coin_mapping, HalfRoundedUp(n) + 1, n)
      /\ Pending = SubSeq(coin_mapping, Invoked + 1, n)
      /\ batch = 1 => Invoked <= HalfRoundedUp(n)
      /\ batch = 2 => Invoked >= HalfRoundedUp(n)
      /\ current_coin # "" =>
             /\ Invoked >= 1
             /\ current_coin = coin_mapping[Invoked]
             /\ batch = 1 <=> Invoked <= HalfRoundedUp(n)
      /\ \A i, j \in DOMAIN score_writes :
             score_writes[i].coin_id = score_writes[j].coin_id => i = j
      /\ \A i, j \in DOMAIN scores_table :
             scores_table[i].coin_id = scores_table[j].coin_id => i = j

\* a step hands over at most one id, the next of the mapping
NextInOrder ==
    /\ Split => Pending' = Pending \/ (Pending # <<>> /\ Pending' = Tail(Pending))
    /\ (Split /\ Pending' # Pending) => current_coin' = Head(Pending) /\ pc = "for"
    /\ (Split /\ current_coin' # "" /\ current_coin' # current_coin) => Pending' # Pending

\* C30: in one run over a mapping of n coins the coins are split into the
\* first ceil(n/2) and the rest, in mapping order; process_and_save_coin_data
\* is invoked once for every mapped coin, the first group before the second,
\* so that when the run is over every coin has been handed over exactly
\* once; and no coin gets two score rows in a run.
C30_EveryCoinOnceInTwoBatches ==
    /\ []BatchesInOrder
    /\ [][NextInOrder]_vars
    /\ []((Split /\ RunOver) => Pending = <<>>)

====
